---------------------------- MODULE Spec2Model ----------------------------
(***************************************************************************)
(* A model of the universal-map-component core: the DataSource variants,   *)
(* DataSourceFactory and DataSourceManager (core/data-source), the Layer   *)
(* classes and LayerManager (core/layer), and the provider side            *)
(* (BaseMapProvider, GoogleMapsProvider, GoogleMapsLayerManager) with the  *)
(* UniversalMap facade in front of it.                                     *)
(*                                                                         *)
(* JavaScript values are modelled as strings that spell the value.  An     *)
(* optional field (a key that may be missing from an object, or a value    *)
(* that may be undefined) is a sequence of length 0 or 1: None is the      *)
(* missing key, Some(v) the key holding v.                                 *)
(***************************************************************************)
EXTENDS Integers, Sequences, FiniteSets, TLC

None == << >>
Some(v) == << v >>
Opt(S) == {None} \cup {Some(v) : v \in S}

---------------------------------------------------------------------------
(* Bounds of the model.                                                    *)

\* load() calls suspended on a fetch at the same time
MaxInFlight == 2
\* DataSource instances constructed per run
MaxObjs == 2
\* Layer instances constructed per run
MaxLayerObjs == 2
\* GoogleMapsLayerManager.addLayer calls suspended on a load at the same time
MaxPending == 2
\* overlays of one layer id attached to the map at the same time
MaxOverlays == 2
\* UniversalMap.initialize calls suspended at the same time
MaxInits == 2
\* providers handed to one UniversalMap per run
MaxProviders == 1
MaxCreated == 2
MaxNormalized == 2
MaxLoads == 4
MaxEvents == 2
\* onceHandler closures made by one EventEmitter
MaxOnce == 2
\* calls of the range validators on record
MaxValidated == 2

---------------------------------------------------------------------------
(* Values.                                                                 *)

\* What response.json() can yield: two objects and the falsy JSON values.
TruthyPayloads == {"{A}", "{B}"}
FalsyPayloads == {"null", "0", "false", "''"}
Payloads == TruthyPayloads \cup FalsyPayloads

\* Strings used as the url / data of a descriptor.
UrlStrings == {"https://x/data.json", "https://x/tiles/{z}"}
\* An inline GeoJSON object given as data.
InlineObjects == {"{FeatureCollection}"}
\* The fallback of MockDataSource.load.
EmptyFeatureCollection == "{type:'FeatureCollection',features:[]}"

\* JavaScript truthiness of a value held in a variable.
Truthy(v) == v \notin (FalsyPayloads \cup {"undefined"})
\* typeof v === 'string'
IsString(v) == v \in (UrlStrings \cup {"''"})
\* An optional field read as a JavaScript value.
Val(o) == IF o = None THEN "undefined" ELSE o[1]

SourceIds == {"s", "t"}

\* The source descriptors the model constructs DataSources from.
Descriptor(t, d, u) == [type |-> t, data |-> d, url |-> u]
RemoteDescriptors ==
  { Descriptor("url", None, Some("https://x/data.json")),
    Descriptor("geojson", Some("https://x/data.json"), None) }
LocalDescriptors ==
  { Descriptor("url", None, None),
    Descriptor("geojson", Some("{FeatureCollection}"), None),
    Descriptor("geojson", None, None),
    Descriptor("tiles", None, Some("https://x/tiles/{z}")),
    Descriptor("tiles", None, None),
    Descriptor("3d-tiles", None, Some("https://x/data.json")),
    Descriptor("3d-tiles", None, Some("https://x/tiles/{z}")),
    Descriptor("mock", Some("{FeatureCollection}"), None),
    Descriptor("mock", Some("0"), None),
    Descriptor("mock", None, None) }
UnsupportedDescriptors == { Descriptor("custom", None, None) }
Descriptors == RemoteDescriptors \cup LocalDescriptors \cup UnsupportedDescriptors
\* The descriptors the model registers with a DataSourceManager: a remote
\* source, a source that loads without I/O, and an unsupported tag.
ManagerDescriptors ==
  { Descriptor("url", None, Some("https://x/data.json")),
    Descriptor("mock", None, None),
    Descriptor("custom", None, None) }

SupportedTypes == {"geojson", "url", "tiles", "3d-tiles", "mock"}

\* What a fetch can come back with: a success response whose body parses to
\* a payload, a non-success response, a transport failure, or a success
\* response whose body is no JSON.
Responses ==
  { [kind |-> "ok", body |-> p] : p \in Payloads }
    \cup { [kind |-> k, body |-> "undefined"] : k \in {"notok", "neterr", "badjson"} }

\* The responses the model lets a manager-held source's fetch come back with.
ManagerResponses ==
  { r \in Responses : r.kind \in {"ok", "notok"} /\ r.body \in {"{A}", "undefined"} }

LayerIds == {"a", "b"}

\* Opacities are held in tenths: 5 is 0.5, 15 is 1.5.
OpacityMin == 0
OpacityMax == 10

\* A LayerStyle: the style keys the model follows, each optional.
Style(f, o) == [fillColor |-> f, opacity |-> o]
EmptyStyle == Style(None, None)

\* A LayerConfig, and a Partial<LayerConfig>: every key optional.
LayerConfig(id, type, source, style, visible, opacity, minZoom) ==
  [id |-> id, type |-> type, source |-> source, style |-> style,
   visible |-> visible, opacity |-> opacity, minZoom |-> minZoom]

\* The descriptors the model hands to LayerManager.addLayer: with and
\* without each mandatory field, with and without a style.
AddConfigs ==
  { LayerConfig(i, t, s, st, None, None, None) :
      i \in Opt(LayerIds), t \in Opt({"geojson"}), s \in Opt({"mock://m"}),
      st \in Opt({Style(Some("red"), None)}) }

\* The patches the model hands to LayerManager.updateLayer: each field on
\* its own, and a style (with and without a visibility) together with an
\* opacity in and out of range.
Patch(s, st, v, o, z) == LayerConfig(None, None, s, st, v, o, z)
PatchStyle == Some(Style(None, Some("0.5")))
Patches ==
  { Patch(Some("https://x/data.json"), None, None, None, None),
    Patch(None, PatchStyle, None, None, None),
    Patch(None, None, Some(FALSE), None, None),
    Patch(None, None, None, Some(5), None),
    Patch(None, None, None, Some(15), None),
    Patch(None, None, None, None, Some(3)),
    Patch(None, PatchStyle, None, Some(5), None),
    Patch(None, PatchStyle, None, Some(15), None),
    Patch(None, PatchStyle, Some(FALSE), Some(15), None) }
\* Descriptors that carry an opacity, in range (0.5) and out of range (1.5).
OpacityConfigs ==
  { LayerConfig(Some(i), Some("geojson"), Some("mock://m"), None, None, Some(o), None) :
      i \in LayerIds, o \in {5, 15} }
\* Patches that name the fields a layer copies at construction: an id and a
\* type, next to a patch that names neither.
IdPatch(id) == [Patch(None, None, None, None, None) EXCEPT !.id = Some(id)]
TypePatch(type) == [Patch(None, None, None, None, None) EXCEPT !.type = Some(type)]
IdentityPatches ==
  { IdPatch("b"), TypePatch("markers"), Patch(None, None, Some(FALSE), None, None) }

\* The layers the model adds to a provider: "a", a GeoJSON layer whose data
\* is loaded from a URL, and "b", a layer of a type GoogleMapsLayerManager
\* has no handler for.
ProviderConfigs ==
  { LayerConfig(Some("a"), Some("geojson"), Some("https://x/data.json"), None, None, None, None),
    LayerConfig(Some("b"), Some("custom"), Some("mock://m"), None, None, None, None) }
\* The values the model passes as a visibility and as an opacity (tenths).
Visibilities == {TRUE, FALSE}
Opacities == {5, 15}
\* { visible } and { opacity } as Partial<LayerConfig>
VisiblePatch(v) == Patch(None, None, Some(v), None, None)
OpacityPatch(o) == Patch(None, None, None, Some(o), None)
ProviderPatches ==
  {VisiblePatch(v) : v \in Visibilities} \cup {OpacityPatch(o) : o \in Opacities}

\* startsWith as it would be if it were includes
StartsWithMock_Includes(str) == str \in {"mock://m", "x-mock://m"}

\* source.startsWith('mock://'), on the strings of the model
StartsWithMock(str) == str \in {"mock://m"}

\* A JavaScript object handed to or returned by normalizeSource: its
\* identity and its fields type, data, url and options (type "undefined":
\* the object has no such field).
SourceObject(ref, type, data, url, options) ==
  [ref |-> ref, type |-> type, data |-> data, url |-> url, options |-> options]
\* The values handed to normalizeSource: a string or an object.
JsString(str) == [typeof |-> "string", str |-> str]
JsObject(obj) == [typeof |-> "object", obj |-> obj]
\* An object literal a function returns: a new object without options.
ObjectLiteral(type, data, url) == SourceObject("new", type, data, url, None)

\* The strings given as a source: with the mock prefix, without it, with
\* the prefix inside, and the empty string.
SourceStrings == {"mock://m", "https://x/data.json", "https://x/tiles/{z}", "x-mock://m", "''"}
\* The objects given as a source: a descriptor of each DataSourceType (one
\* with options), GeoJSON objects ('FeatureCollection', 'Feature'), an
\* object without a type field and one whose type is the empty string.
SourceObjects ==
  { SourceObject("{url}", "url", None, Some("https://x/data.json"), Some("{headers}")),
    SourceObject("{geojson}", "geojson", Some("{FeatureCollection}"), None, None),
    SourceObject("{tiles}", "tiles", None, Some("https://x/tiles/{z}"), None),
    SourceObject("{3d-tiles}", "3d-tiles", None, Some("https://x/data.json"), None),
    SourceObject("{mock}", "mock", Some("{A}"), None, None),
    SourceObject("{custom}", "custom", Some("{A}"), None, None),
    SourceObject("{FeatureCollection}", "FeatureCollection", None, None, None),
    SourceObject("{Feature}", "Feature", None, None, None),
    SourceObject("{coordinates}", "undefined", None, None, None),
    SourceObject("{type:''}", "''", None, None, None) }
SourceInputs ==
  {JsString(str) : str \in SourceStrings} \cup {JsObject(obj) : obj \in SourceObjects}

Resolved(v) == [ok |-> TRUE, v |-> v]
Rejected(e) == [ok |-> FALSE, v |-> e]
Pending == [ok |-> FALSE, v |-> "pending"]

---------------------------------------------------------------------------
VARIABLES
  objs,      \* the DataSource instances constructed so far, by reference
  sources,   \* DataSourceManager.sources: id -> reference (0: no entry)
  calls,     \* the load() invocations suspended on their fetch
  dsLast,    \* the last DataSourceManager / DataSource operation and its outcome
  layers,    \* LayerManager.layers: id -> the layer stored (None: no entry)
  lmNextUid, \* the next Layer instance to be constructed (its identity)
  lmLast,    \* the last LayerManager operation and its outcome
  lmDestroyed, \* the destroy() calls the last LayerManager operation made
  pState,    \* GoogleMapsProvider: "new", "loading" (initialize awaits the API),
             \* "ready", "failed" (initialize rejected) or "destroyed"
  pLayers,   \* BaseMapProvider.layers: id -> LayerConfig (None: no entry)
  gm,        \* the GoogleMapsLayerManager and the overlays on its map
  pLast,     \* the last provider / facade operation and its outcome
  fInitialized, \* UniversalMap.initialized
  fProvider,  \* UniversalMap.provider is set
  umProviders, \* the providers createProvider has handed out, by reference
  umProvider,  \* UniversalMap.provider: a reference (0: undefined)
  umInits,     \* the UniversalMap.initialize calls suspended on an await
  umListeners, \* UniversalMap.eventEmitter.listeners, as (type, handler) pairs
  umLast,      \* the last UniversalMap / provider event operation and its outcome
  rt,          \* a caller's script on one DataSource: what the endpoint answers
               \* and what each completed call of the script gave
  created,     \* the calls of DataSourceFactory.createDataSource made so far:
               \* the descriptor given and what the call returned or threw
  normalized,  \* the calls of DataSourceFactory.normalizeSource made so far:
               \* the value given and the descriptor returned
  ee,          \* an EventEmitter: its listeners, its once closures, its last operation
  loader,      \* the GoogleMapsAPILoader singleton, the document and window it
               \* runs in, and the load() calls made on it
  mapper,      \* a GoogleMapsEventMapper, the listeners on its map and the
               \* events its callback has received
  validated    \* the calls of the range validators made so far

dsVars == << objs, sources, calls, dsLast >>
lmVars == << layers, lmNextUid, lmLast, lmDestroyed >>
gpVars == << pState, pLayers, gm, pLast, fInitialized, fProvider >>
umVars == << umProviders, umProvider, umInits, umListeners, umLast >>
vars == << objs, sources, calls, dsLast, layers, lmNextUid, lmLast, lmDestroyed,
          pState, pLayers, gm, pLast, fInitialized, fProvider,
          umProviders, umProvider, umInits, umListeners, umLast, rt, created, normalized, ee, loader, mapper, validated >>

Refs == 1 .. Len(objs)
CallIds == 1 .. Len(calls)

(* BaseDataSource: the fields after the constructor. *)
BaseDataSource(config) ==
  [type |-> config.type, config |-> config, loaded |-> FALSE, data |-> "null"]

(* BaseDataSource.isLoaded *)
isLoaded(inst) == inst.loaded

(* destroy as it would be if it cleared the payload and kept the flag *)
destroy_KeepsLoaded(inst) == [inst EXCEPT !.data = "null"]

(* BaseDataSource.destroy *)
destroy(inst) == [inst EXCEPT !.data = "null", !.loaded = FALSE]

(* A variant's constructor: super(config), then the check of the tag.  cls *)
(* is the class constructed and tag the tag it accepts.                    *)
NewDataSource(cls, tag, config) ==
  IF config.type # tag
    THEN [ok |-> FALSE, inst |-> BaseDataSource(config), variant |-> "none",
          err |-> "Invalid data source type for " \o cls]
    ELSE [ok |-> TRUE, inst |-> BaseDataSource(config), variant |-> cls,
          err |-> "none"]

(* What createDataSource throws from the default branch of its switch *)
Unsupported(config) ==
  [ok |-> FALSE, inst |-> BaseDataSource(config), variant |-> "none",
   err |-> "Unsupported data source type: " \o config.type]

(* createDataSource as it would be with the case for 'mock' left out *)
createDataSource_NoMockCase(config) ==
  CASE config.type = "geojson" -> NewDataSource("GeoJSONDataSource", "geojson", config)
    [] config.type = "url" -> NewDataSource("URLDataSource", "url", config)
    [] config.type = "tiles" -> NewDataSource("TileDataSource", "tiles", config)
    [] config.type = "3d-tiles" -> NewDataSource("ThreeDTilesDataSource", "3d-tiles", config)
    [] OTHER -> Unsupported(config)

(* DataSourceFactory.createDataSource: the instance and the class it was   *)
(* constructed from, or the error thrown.                                  *)
createDataSource(config) ==
  CASE config.type = "geojson" -> NewDataSource("GeoJSONDataSource", "geojson", config)
    [] config.type = "url" -> NewDataSource("URLDataSource", "url", config)
    [] config.type = "tiles" -> NewDataSource("TileDataSource", "tiles", config)
    [] config.type = "3d-tiles" -> NewDataSource("ThreeDTilesDataSource", "3d-tiles", config)
    [] config.type = "mock" -> NewDataSource("MockDataSource", "mock", config)
    [] OTHER -> Unsupported(config)

(***************************************************************************)
(* load(): the part that runs before the first await.  The outcome is the  *)
(* instance as that part leaves it, the call's position ("fetching" when   *)
(* it is suspended on fetch) and, when it has settled, what it settled to. *)
(***************************************************************************)
Settle(inst, res) ==
  [inst |-> inst, pc |-> IF res.ok THEN "resolved" ELSE "rejected", res |-> res]
Suspend(inst) == [inst |-> inst, pc |-> "fetching", res |-> Pending]

(* URLDataSource.load, up to the await of fetch *)
URLDataSourceLoad(inst) ==
  IF inst.loaded /\ Truthy(inst.data) THEN Settle(inst, Resolved(inst.data))
  ELSE IF ~Truthy(Val(inst.config.url))
    THEN Settle(inst, Rejected("URL is required for URLDataSource"))
  ELSE Suspend(inst)

(* GeoJSONDataSource.load, up to the await of fetch *)
GeoJSONDataSourceLoad(inst) ==
  IF inst.loaded /\ Truthy(inst.data) THEN Settle(inst, Resolved(inst.data))
  ELSE IF IsString(Val(inst.config.data)) THEN Suspend(inst)
  ELSE IF Truthy(Val(inst.config.data))
    THEN Settle([inst EXCEPT !.data = Val(inst.config.data), !.loaded = TRUE],
                Resolved(Val(inst.config.data)))
  ELSE Settle(inst, Rejected("GeoJSON data or URL is required"))

(* TileDataSource.load *)
TileDataSourceLoad(inst) ==
  IF ~Truthy(Val(inst.config.url))
    THEN Settle(inst, Rejected("Tile URL template is required"))
    ELSE Settle([inst EXCEPT !.loaded = TRUE, !.data = Val(inst.config.url)],
                Resolved(Val(inst.config.url)))

(* The urls of the model that end with '.json' or contain 'tileset' *)
TilesetNamed(url) == url \in {"https://x/data.json"}

(* ThreeDTilesDataSource.load as it would be if the naming check threw *)
ThreeDTilesDataSourceLoad_NamingRequired(inst) ==
  IF ~Truthy(Val(inst.config.url))
    THEN Settle(inst, Rejected("3D Tiles tileset URL is required"))
  ELSE IF ~TilesetNamed(Val(inst.config.url))
    THEN Settle(inst, Rejected("3D Tiles URL should typically point to a tileset.json file"))
    ELSE Settle([inst EXCEPT !.loaded = TRUE, !.data = Val(inst.config.url)],
                Resolved(Val(inst.config.url)))

(* ThreeDTilesDataSource.load: the naming check only warns *)
ThreeDTilesDataSourceLoad(inst) ==
  IF ~Truthy(Val(inst.config.url))
    THEN Settle(inst, Rejected("3D Tiles tileset URL is required"))
    ELSE Settle([inst EXCEPT !.loaded = TRUE, !.data = Val(inst.config.url)],
                Resolved(Val(inst.config.url)))

(* MockDataSource.load *)
MockDataSourceLoad(inst) ==
  LET d == IF Truthy(Val(inst.config.data)) THEN Val(inst.config.data)
           ELSE EmptyFeatureCollection
  IN Settle([inst EXCEPT !.data = d, !.loaded = TRUE], Resolved(d))

(* load() of the variant createDataSource built *)
LoadStart(inst) ==
  CASE inst.type = "url" -> URLDataSourceLoad(inst)
    [] inst.type = "geojson" -> GeoJSONDataSourceLoad(inst)
    [] inst.type = "tiles" -> TileDataSourceLoad(inst)
    [] inst.type = "3d-tiles" -> ThreeDTilesDataSourceLoad(inst)
    [] OTHER -> MockDataSourceLoad(inst)

(***************************************************************************)
(* load(): the part after the fetch has come back (URLDataSource and       *)
(* GeoJSONDataSource share it).  The two awaits, of fetch and of           *)
(* response.json(), are one step: the instance is written only after the   *)
(* second.                                                                 *)
(***************************************************************************)
LoadFinish(inst, r) ==
  CASE r.kind = "ok" ->
         Settle([inst EXCEPT !.data = r.body, !.loaded = TRUE], Resolved(r.body))
    [] r.kind = "notok" -> Settle(inst, Rejected("Failed to load: statusText"))
    [] r.kind = "neterr" -> Settle(inst, Rejected("TypeError: fetch failed"))
    [] OTHER -> Settle(inst, Rejected("SyntaxError: not JSON"))

(* A load() call suspended on its fetch: the instance it runs on.  stale   *)
(* notes that destroy() ran on the instance while the fetch was in flight  *)
(* (history, not program state).                                           *)
Call(o) == [obj |-> o, stale |-> FALSE]

(* The last operation: its name, the id it was given, the instance it ran  *)
(* on (0: none), how it ended (a load: "fetching", "resolved" or           *)
(* "rejected"; otherwise "ok" or the error thrown), the value or error a   *)
(* load settled to, and for a settled fetch whether it was stale.          *)
Op(op, id, o, outcome, res, stale) ==
  [op |-> op, id |-> id, obj |-> o, outcome |-> outcome, res |-> res, stale |-> stale]

RemoveAt(s, i) == [j \in 1 .. (Len(s) - 1) |-> IF j < i THEN s[j] ELSE s[j + 1]]

MarkStale(cs, os) ==
  [c \in DOMAIN cs |-> IF cs[c].obj \in os THEN [cs[c] EXCEPT !.stale = TRUE] ELSE cs[c]]

(* A call of load() on instance o, made as operation op with id. *)
StartLoad(op, id, o) ==
  LET out == LoadStart(objs[o])
  IN /\ out.pc = "fetching" => Len(calls) < MaxInFlight
     /\ objs' = [objs EXCEPT ![o] = out.inst]
     /\ calls' = IF out.pc = "fetching" THEN Append(calls, Call(o)) ELSE calls
     /\ dsLast' = Op(op, id, o, out.pc, out.res.v, FALSE)

---------------------------------------------------------------------------
(* Operations on one DataSource instance, held by reference.               *)

(* inst.load(), called on a reference the caller holds *)
Load(o) ==
  /\ StartLoad("load", "-", o)
  /\ UNCHANGED sources

(* the fetch of the suspended call c comes back and load() runs to its end *)
FetchReturns(c, r) ==
  /\ LET o == calls[c].obj
         out == LoadFinish(objs[o], r)
     IN /\ objs' = [objs EXCEPT ![o] = out.inst]
        /\ calls' = RemoveAt(calls, c)
        /\ dsLast' = Op("settle", "-", o, out.pc, out.res.v, calls[c].stale)
  /\ UNCHANGED sources

(* inst.destroy(), called on a reference the caller holds *)
Destroy(o) ==
  /\ objs' = [objs EXCEPT ![o] = destroy(objs[o])]
  /\ calls' = MarkStale(calls, {o})
  /\ dsLast' = Op("destroy", "-", o, "ok", "undefined", FALSE)
  /\ UNCHANGED sources

---------------------------------------------------------------------------
(* DataSourceManager.                                                      *)

(* DataSourceManager.registerSource *)
registerSource(id, config) ==
  LET made == createDataSource(config)
  IN IF ~made.ok
       THEN /\ dsLast' = Op("registerSource", id, 0, made.err, "undefined", FALSE)
            /\ UNCHANGED << objs, sources, calls >>
       ELSE /\ Len(objs) < MaxObjs
            /\ objs' = Append(objs, made.inst)
            /\ sources' = [sources EXCEPT ![id] = Len(objs) + 1]
            /\ dsLast' = Op("registerSource", id, Len(objs) + 1, "ok", "undefined", FALSE)
            /\ UNCHANGED calls

(* removeSource as it would be if it deleted the entry and left the source *)
(* undestroyed                                                             *)
removeSource_DeletesOnly(id) ==
  /\ sources' = [sources EXCEPT ![id] = 0]
  /\ dsLast' = Op("removeSource", id, sources[id], "ok", "undefined", FALSE)
  /\ UNCHANGED << objs, calls >>

(* DataSourceManager.removeSource *)
removeSource(id) ==
  /\ IF sources[id] # 0
       THEN /\ objs' = [objs EXCEPT ![sources[id]] = destroy(objs[sources[id]])]
            /\ calls' = MarkStale(calls, {sources[id]})
            /\ sources' = [sources EXCEPT ![id] = 0]
       ELSE UNCHANGED << objs, sources, calls >>
  /\ dsLast' = Op("removeSource", id, sources[id], "ok", "undefined", FALSE)

(* DataSourceManager.clear *)
clear ==
  LET held == {sources[i] : i \in SourceIds} \ {0}
  IN /\ objs' = [o \in DOMAIN objs |-> IF o \in held THEN destroy(objs[o]) ELSE objs[o]]
     /\ calls' = MarkStale(calls, held)
     /\ sources' = [i \in SourceIds |-> 0]
     /\ dsLast' = Op("clear", "-", 0, "ok", "undefined", FALSE)

(* DataSourceManager.loadSource *)
(* loadSource as it would be with source?.load(): an unregistered id       *)
(* resolves to undefined                                                   *)
loadSource_ResolvesUndefined(id) ==
  IF sources[id] = 0
    THEN /\ dsLast' = Op("loadSource", id, 0, "resolved", "undefined", FALSE)
         /\ UNCHANGED << objs, sources, calls >>
    ELSE /\ StartLoad("loadSource", id, sources[id])
         /\ UNCHANGED sources

(* DataSourceManager.loadSource *)
loadSource(id) ==
  IF sources[id] = 0
    THEN /\ dsLast' = Op("loadSource", id, 0, "rejected", "Data source not found", FALSE)
         /\ UNCHANGED << objs, sources, calls >>
    ELSE /\ StartLoad("loadSource", id, sources[id])
         /\ UNCHANGED sources

---------------------------------------------------------------------------
(* Layers and the LayerManager.                                            *)

(* The object spread {...a, ...b}: b's keys override a's. *)
Spread(a, b) == [k \in DOMAIN a |-> IF b[k] # None THEN b[k] ELSE a[k]]

(* validateConfig as it would be without the check of source *)
validateConfig_NoSourceCheck(config) ==
  IF config.id = None THEN "Layer ID is required"
  ELSE IF config.type = None THEN "Layer type is required"
  ELSE "ok"

(* BaseLayer.validateConfig / LayerFactory.validateLayerConfig *)
validateConfig(config) ==
  IF config.id = None THEN "Layer ID is required"
  ELSE IF config.type = None THEN "Layer type is required"
  ELSE IF config.source = None THEN "Layer source is required"
  ELSE "ok"

(* BaseLayer's constructor (through LayerFactory.createLayer and           *)
(* GenericLayer): the instance, or the error validateConfig throws.        *)
createLayer(uid, config) ==
  [err |-> validateConfig(config),
   layer |-> [uid |-> uid, id |-> config.id, type |-> config.type, config |-> config]]

(* BaseLayer.setStyle *)
setStyle(layer, style) ==
  [layer EXCEPT !.config.style =
     Some(Spread(IF @ = None THEN EmptyStyle ELSE @[1], style))]

(* BaseLayer.setVisible *)
setVisible(layer, visible) == [layer EXCEPT !.config.visible = Some(visible)]

(* the range check of BaseLayer.setOpacity *)
OpacityInRange(opacity) == ~(opacity < OpacityMin \/ opacity > OpacityMax)

(* BaseLayer.setOpacity, when the range check passes *)
setOpacity(layer, opacity) == [layer EXCEPT !.config.opacity = Some(opacity)]

(* BaseLayer.setSource *)
setSource(layer, source) == [layer EXCEPT !.config.source = Some(source)]

(* LayerManager.updateLayer on the layer found: the layer as the call      *)
(* leaves it and how the call ends.  The mutators run in the order style,  *)
(* visible, opacity, source; setOpacity may throw after the earlier ones   *)
(* have written.                                                           *)
updateLayerBody(layer, updates) ==
  LET l1 == IF updates.style # None THEN setStyle(layer, updates.style[1]) ELSE layer
      l2 == IF updates.visible # None THEN setVisible(l1, updates.visible[1]) ELSE l1
      l3 == IF updates.opacity # None THEN setOpacity(l2, updates.opacity[1]) ELSE l2
      l4 == IF updates.source # None THEN setSource(l3, updates.source[1]) ELSE l3
  IN IF updates.opacity # None /\ ~OpacityInRange(updates.opacity[1])
       THEN [layer |-> l2, outcome |-> "Opacity must be between 0 and 1"]
       ELSE [layer |-> [l4 EXCEPT !.config = Spread(l4.config, updates)],
             outcome |-> "ok"]

(* The last LayerManager operation: its name, the id it was given, the     *)
(* style its patch carried (updateLayer) and how it ended ("ok" or the     *)
(* error thrown).  lmDestroyed holds the destroy() calls it made.          *)
LmOp(op, id, style, outcome) ==
  [op |-> op, id |-> id, style |-> style, outcome |-> outcome]

(* How often destroy() was called on each Layer instance, by its identity. *)
DestroyCalls(uids) == [u \in 1 .. MaxLayerObjs |-> IF u \in uids THEN 1 ELSE 0]

(* removeLayer as it would be if it deleted the entry and left the layer   *)
(* undestroyed                                                             *)
lmRemoveLayer_SkipsDestroy(L, layerId) ==
  [layers |-> [L EXCEPT ![layerId] = None], destroyed |-> DestroyCalls({})]

(* LayerManager.removeLayer: the registry it leaves and the destroy()      *)
(* calls it makes (GenericLayer.destroy itself does nothing)               *)
lmRemoveLayer(L, layerId) ==
  IF L[layerId] # None
    THEN [layers |-> [L EXCEPT ![layerId] = None],
          destroyed |-> DestroyCalls({L[layerId][1].uid})]
    ELSE [layers |-> L, destroyed |-> DestroyCalls({})]

(* hasLayer as it would be if addLayer did not look the id up *)
hasLayer_Never(id) == FALSE

(* LayerManager.hasLayer, for a key that may be undefined *)
hasLayer(id) == id # None /\ layers[id[1]] # None

(* LayerManager.addLayer *)
addLayer(config) ==
  IF hasLayer(config.id)
    THEN /\ lmLast' = LmOp("addLayer", config.id, None, "Layer already exists")
         /\ lmDestroyed' = DestroyCalls({})
         /\ UNCHANGED << layers, lmNextUid >>
  ELSE IF createLayer(lmNextUid, config).err # "ok"
    THEN /\ lmLast' = LmOp("addLayer", config.id, None, createLayer(lmNextUid, config).err)
         /\ lmDestroyed' = DestroyCalls({})
         /\ UNCHANGED << layers, lmNextUid >>
  ELSE /\ lmNextUid <= MaxLayerObjs
       /\ layers' = [layers EXCEPT ![config.id[1]] = Some(createLayer(lmNextUid, config).layer)]
       /\ lmNextUid' = lmNextUid + 1
       /\ lmLast' = LmOp("addLayer", config.id, None, "ok")
       /\ lmDestroyed' = DestroyCalls({})

(* LayerManager.removeLayer *)
removeLayer(layerId) ==
  /\ layers' = lmRemoveLayer(layers, layerId).layers
  /\ lmDestroyed' = lmRemoveLayer(layers, layerId).destroyed
  /\ lmLast' = LmOp("removeLayer", Some(layerId), None, "ok")
  /\ UNCHANGED lmNextUid

(* updateLayer as it would be if it ignored an id it does not find *)
updateLayer_IgnoresAbsent(layerId, updates) ==
  IF layers[layerId] = None
    THEN /\ lmLast' = LmOp("updateLayer", Some(layerId), updates.style, "ok")
         /\ lmDestroyed' = DestroyCalls({})
         /\ UNCHANGED << layers, lmNextUid >>
    ELSE LET out == updateLayerBody(layers[layerId][1], updates)
         IN /\ layers' = [layers EXCEPT ![layerId] = Some(out.layer)]
            /\ lmLast' = LmOp("updateLayer", Some(layerId), updates.style, out.outcome)
            /\ lmDestroyed' = DestroyCalls({})
            /\ UNCHANGED lmNextUid

(* LayerManager.updateLayer *)
updateLayer(layerId, updates) ==
  IF layers[layerId] = None
    THEN /\ lmLast' = LmOp("updateLayer", Some(layerId), updates.style, "Layer not found")
         /\ lmDestroyed' = DestroyCalls({})
         /\ UNCHANGED << layers, lmNextUid >>
    ELSE LET out == updateLayerBody(layers[layerId][1], updates)
         IN /\ layers' = [layers EXCEPT ![layerId] = Some(out.layer)]
            /\ lmLast' = LmOp("updateLayer", Some(layerId), updates.style, out.outcome)
            /\ lmDestroyed' = DestroyCalls({})
            /\ UNCHANGED lmNextUid

(* LayerManager.clear *)
clearLayers ==
  /\ layers' = [i \in LayerIds |-> None]
  /\ lmDestroyed' = DestroyCalls({layers[i][1].uid : i \in {k \in LayerIds : layers[k] # None}})
  /\ lmLast' = LmOp("clear", None, None, "ok")
  /\ UNCHANGED lmNextUid

---------------------------------------------------------------------------
(* GoogleMapsLayerManager.  Its record holds the key sets of its maps      *)
(* layers, dataLayers and markers (the values stored are never read back), *)
(* the addLayer calls suspended on their data load, and, per layer id, the *)
(* number of overlays made for it that are attached to the map.            *)

(* normalizeSource as it would be if it copied the fields a source has    *)
(* into a new descriptor                                                   *)
normalizeSource_CopiesFields(source) ==
  IF source.typeof = "string"
    THEN IF StartsWithMock(source.str)
           THEN ObjectLiteral("mock", Some(source.str), None)
           ELSE ObjectLiteral("url", None, Some(source.str))
  ELSE IF Truthy(source.obj.type)
    THEN ObjectLiteral(source.obj.type, source.obj.data, source.obj.url)
  ELSE ObjectLiteral("geojson", Some(source.obj.ref), None)

(* DataSourceFactory.normalizeSource.  'type' in source && source.type is  *)
(* the truthiness of the type field, absent or not.                        *)
normalizeSource(source) ==
  IF source.typeof = "string"
    THEN IF StartsWithMock(source.str)
           THEN ObjectLiteral("mock", Some(source.str), None)
           ELSE ObjectLiteral("url", None, Some(source.str))
  ELSE IF Truthy(source.obj.type) THEN source.obj
  ELSE ObjectLiteral("geojson", Some(source.obj.ref), None)

NewLayerManager ==
  [layers |-> {}, dataLayers |-> {}, markers |-> {}, tasks |-> << >>,
   attached |-> [i \in LayerIds |-> 0]]

(* GoogleMapsLayerManager.removeLayer *)
gmRemoveLayer(G, layerId) ==
  LET tracked == (IF layerId \in G.dataLayers THEN 1 ELSE 0)
                   + (IF layerId \in G.markers THEN 1 ELSE 0)
  IN [G EXCEPT !.dataLayers = @ \ {layerId}, !.markers = @ \ {layerId},
               !.layers = @ \ {layerId}, !.attached[layerId] = @ - tracked]

(* The handler addLayer's switch picks for a layer type. *)
HandlerOf(type) ==
  CASE type \in {"geojson", "polygons"} -> "data"
    [] type \in {"markers", "points", "heatmap"} -> "markers"
    [] OTHER -> "none"

(* GoogleMapsLayerManager.addLayer, up to its first await.  For a layer    *)
(* already in layers it goes through updateLayer: removeLayer, then        *)
(* addLayer again.  addGeoJSONLayer attaches its Data overlay before it    *)
(* creates the data source; when createDataSource throws, the call rejects *)
(* and no task is left.                                                    *)
gmAddLayer(G, config) ==
  LET id == config.id[1]
      G1 == IF id \in G.layers THEN gmRemoveLayer(G, id) ELSE G
      kind == HandlerOf(Val(config.type))
      made == createDataSource(normalizeSource(JsString(config.source[1])))
      G2 == IF kind = "data" THEN [G1 EXCEPT !.attached[id] = @ + 1] ELSE G1
  IN IF kind = "none" THEN [G1 EXCEPT !.layers = @ \cup {id}]
     ELSE IF ~made.ok THEN G2
     ELSE [G2 EXCEPT !.tasks = Append(@, [id |-> id, kind |-> kind,
                                           remote |-> made.inst.type = "url"])]

(* GoogleMapsLayerManager.updateLayer, up to its first await *)
gmUpdateLayer(G, layerId, config) == gmAddLayer(gmRemoveLayer(G, layerId), config)

(* GoogleMapsLayerManager.addLayer after its data load has settled: the    *)
(* handler tracks its overlay (addMarkersLayer makes it only now) and      *)
(* addLayer records the layer; a rejected load ends the call there.        *)
gmFinishAdd(G, t, loadOk) ==
  LET task == G.tasks[t]
      G1 == [G EXCEPT !.tasks = RemoveAt(@, t)]
  IN IF ~loadOk THEN G1
     ELSE IF task.kind = "data"
       THEN [G1 EXCEPT !.dataLayers = @ \cup {task.id}, !.layers = @ \cup {task.id}]
     ELSE [G1 EXCEPT !.markers = @ \cup {task.id}, !.layers = @ \cup {task.id},
                     !.attached[task.id] = @ + 1]

(* GoogleMapsLayerManager.destroy *)
gmDestroy(G) ==
  [G EXCEPT !.dataLayers = {}, !.markers = {}, !.layers = {},
            !.attached = [i \in LayerIds |->
               @[i] - (IF i \in G.dataLayers THEN 1 ELSE 0)
                    - (IF i \in G.markers THEN 1 ELSE 0)]]

(* The model follows a manager only within its bounds. *)
Fits(G) ==
  /\ Len(G.tasks) <= MaxPending
  /\ \A i \in LayerIds : G.attached[i] <= MaxOverlays

---------------------------------------------------------------------------
(* GoogleMapsProvider (with what it inherits from BaseMapProvider).  Each  *)
(* operation is a function of the provider's state: the state it leaves    *)
(* and how it ends ("ok" or the error thrown).                             *)

(* this.layerManager is set: initialize has come through *)
HasLayerManager(st) == st \in {"ready", "destroyed"}

Outcome(L, G, outcome) == [layers |-> L, gm |-> G, outcome |-> outcome]

(* GoogleMapsProvider.addLayer *)
gpAddLayer(st, L, G, layer) ==
  IF ~HasLayerManager(st) THEN Outcome(L, G, "Layer manager not initialized")
  ELSE Outcome([L EXCEPT ![layer.id[1]] = Some(layer)], gmAddLayer(G, layer), "ok")

(* GoogleMapsProvider.removeLayer *)
gpRemoveLayer(st, L, G, layerId) ==
  IF ~HasLayerManager(st) THEN Outcome(L, G, "Layer manager not initialized")
  ELSE Outcome([L EXCEPT ![layerId] = None], gmRemoveLayer(G, layerId), "ok")

(* GoogleMapsProvider.updateLayer *)
gpUpdateLayer(st, L, G, layerId, updates) ==
  IF ~HasLayerManager(st) THEN Outcome(L, G, "Layer manager not initialized")
  ELSE IF L[layerId] = None THEN Outcome(L, G, "Layer not found")
  ELSE LET updatedLayer == Spread(L[layerId][1], updates)
       IN Outcome([L EXCEPT ![layerId] = Some(updatedLayer)],
                  gmUpdateLayer(G, layerId, updatedLayer), "ok")

(* BaseMapProvider.setLayerVisibility *)
setLayerVisibility(st, L, G, layerId, visible) ==
  IF L[layerId] # None THEN gpUpdateLayer(st, L, G, layerId, VisiblePatch(visible))
  ELSE Outcome(L, G, "ok")

(* BaseMapProvider.setLayerOpacity *)
setLayerOpacity(st, L, G, layerId, opacity) ==
  IF L[layerId] # None THEN gpUpdateLayer(st, L, G, layerId, OpacityPatch(opacity))
  ELSE Outcome(L, G, "ok")

(* The last provider or facade operation: its name, the layer id and the   *)
(* value it was given, and how it ended.                                   *)
POp(op, id, arg, outcome) == [op |-> op, id |-> id, arg |-> arg, outcome |-> outcome]

(* A call of a provider operation whose result is out. *)
ProviderCall(op, id, arg, out) ==
  /\ Fits(out.gm)
  /\ pLayers' = out.layers
  /\ gm' = out.gm
  /\ pLast' = POp(op, id, arg, out.outcome)
  /\ UNCHANGED << pState, fInitialized, fProvider >>

(* GoogleMapsProvider.initialize, up to the await of loadGoogleMapsAPI *)
ProviderInitialize ==
  /\ pState = "new"
  /\ pState' = "loading"
  /\ pLast' = POp("initialize", "-", None, "pending")
  /\ UNCHANGED << pLayers, gm, fInitialized, fProvider >>

(* GoogleMapsProvider.initialize, after the API load has settled *)
ProviderInitialized(apiOk) ==
  /\ pState = "loading"
  /\ pState' = IF apiOk THEN "ready" ELSE "failed"
  /\ gm' = IF apiOk THEN NewLayerManager ELSE gm
  /\ pLast' = POp("initialize", "-", None, IF apiOk THEN "ok" ELSE "Failed to load Google Maps API")
  /\ UNCHANGED << pLayers, fInitialized, fProvider >>

(* GoogleMapsProvider.destroy *)
ProviderDestroy ==
  /\ pState' = IF pState = "loading" THEN "loading"
               ELSE IF HasLayerManager(pState) THEN "destroyed" ELSE pState
  /\ gm' = IF HasLayerManager(pState) THEN gmDestroy(gm) ELSE gm
  /\ pLast' = POp("destroy", "-", None, "ok")
  /\ UNCHANGED << pLayers, fInitialized, fProvider >>

ProviderAddLayer(layer) ==
  ProviderCall("addLayer", layer.id[1], None, gpAddLayer(pState, pLayers, gm, layer))

ProviderRemoveLayer(id) ==
  ProviderCall("removeLayer", id, None, gpRemoveLayer(pState, pLayers, gm, id))

ProviderUpdateLayer(id, updates) ==
  ProviderCall("updateLayer", id, None, gpUpdateLayer(pState, pLayers, gm, id, updates))

ProviderSetLayerVisibility(id, v) ==
  ProviderCall("setLayerVisibility", id, Some(v), setLayerVisibility(pState, pLayers, gm, id, v))

ProviderSetLayerOpacity(id, o) ==
  ProviderCall("setLayerOpacity", id, Some(o), setLayerOpacity(pState, pLayers, gm, id, o))

(* the data load of the suspended addLayer call t settles *)
LayerLoadSettles(t, loadOk) ==
  /\ t \in 1 .. Len(gm.tasks)
  /\ loadOk \/ gm.tasks[t].remote
  /\ gm' = gmFinishAdd(gm, t, loadOk)
  /\ Fits(gm')
  /\ pLast' = POp("layerLoad", gm.tasks[t].id, None, IF loadOk THEN "ok" ELSE "rejected")
  /\ UNCHANGED << pState, pLayers, fInitialized, fProvider >>

---------------------------------------------------------------------------
(* UniversalMap, the facade.                                               *)

(* UniversalMap.createProvider: it throws for every provider name *)
createProvider == [ok |-> FALSE, err |-> "PROVIDER_NOT_FOUND"]

(* ensureInitialized as it would be if it looked at the provider only *)
ensureInitialized_ProviderOnly == fProvider

(* UniversalMap.ensureInitialized *)
ensureInitialized == fInitialized /\ fProvider

(* A facade operation that checks ensureInitialized and then hands the     *)
(* call to the provider, whose result would be out.                        *)
FacadeCall(op, id, arg, out) ==
  IF ~ensureInitialized
    THEN /\ pLast' = POp(op, id, arg, "NOT_INITIALIZED")
         /\ UNCHANGED << pState, pLayers, gm, fInitialized, fProvider >>
    ELSE ProviderCall(op, id, arg, out)

(* UniversalMap.initialize *)
FacadeInitialize ==
  IF fInitialized
    THEN /\ pLast' = POp("UniversalMap.initialize", "-", None, "ok")
         /\ UNCHANGED << pState, pLayers, gm, fInitialized, fProvider >>
  ELSE IF ~createProvider.ok
    THEN /\ pLast' = POp("UniversalMap.initialize", "-", None, "INIT_ERROR")
         /\ UNCHANGED << pState, pLayers, gm, fInitialized, fProvider >>
  ELSE /\ pState = "ready"
       /\ fProvider' = TRUE
       /\ fInitialized' = TRUE
       /\ pLast' = POp("UniversalMap.initialize", "-", None, "ok")
       /\ UNCHANGED << pState, pLayers, gm >>

(* UniversalMap.updateLayer *)
FacadeUpdateLayer(id, updates) ==
  FacadeCall("UniversalMap.updateLayer", id, None,
             gpUpdateLayer(pState, pLayers, gm, id, updates))

(* UniversalMap.setLayerVisibility *)
FacadeSetLayerVisibility(id, v) ==
  FacadeCall("UniversalMap.setLayerVisibility", id, Some(v),
             setLayerVisibility(pState, pLayers, gm, id, v))

(* UniversalMap.setLayerOpacity *)
FacadeSetLayerOpacity(id, o) ==
  FacadeCall("UniversalMap.setLayerOpacity", id, Some(o),
             setLayerOpacity(pState, pLayers, gm, id, o))

---------------------------------------------------------------------------
(* UniversalMap with its event emitter, its initialize calls in flight and *)
(* the providers handed to it.  A provider is followed as UniversalMap     *)
(* uses it: its initialize settles either way, and its handlers are those  *)
(* of BaseMapProvider.on / off.                                            *)

(* MapEventType *)
MapEventTypes ==
  {"load", "click", "dblclick", "mousemove", "mouseenter", "mouseleave",
   "contextmenu", "zoom", "move", "movestart", "moveend", "zoomstart",
   "zoomend", "rotate", "pitch", "error"}
(* The event types setupEventForwarding registers a forwarder for. *)
ForwardedTypes ==
  {"click", "dblclick", "mousemove", "mouseenter", "mouseleave",
   "contextmenu", "zoom", "move", "movestart", "moveend", "zoomstart",
   "zoomend", "rotate", "pitch", "error"}
(* The event types the model subscribes to and emits, and its handlers. *)
EventInputs == {"load", "click"}
Handlers == {"h"}

(* The operations of UniversalMap that start with ensureInitialized, each  *)
(* with the provider method it then calls.                                 *)
FacadeOperations ==
  {"getViewState", "setViewState", "setCenter", "setZoom", "getBounds",
   "fitBounds", "addLayer", "removeLayer", "updateLayer", "getLayer",
   "getLayers", "setLayerVisibility", "setLayerOpacity", "getMapInstance"}
ProviderMethod(op) == IF op \in {"setCenter", "setZoom"} THEN "setViewState" ELSE op

(* A provider as createProvider would hand it over, initialize called. *)
NewProvider == [state |-> "initializing", handlers |-> {}, forwards |-> 0]

(* createProvider as the facade's description has it: it resolves to a     *)
(* provider.                                                               *)
createProviderResolved == [ok |-> TRUE, err |-> "none"]

(* How often each handler was invoked. *)
NoInvocations == [h \in Handlers |-> 0]

(* EventEmitter.emit: each handler registered for the type is invoked once *)
emit(listeners, eventType) ==
  [h \in Handlers |-> IF << eventType, h >> \in listeners THEN 1 ELSE 0]

(* BaseMapProvider.emit on a provider the facade has set up: the handlers  *)
(* registered on it run, a forwarder among them emitting on the facade.    *)
providerEmit(P, listeners, eventType) ==
  [h \in Handlers |->
     (IF << eventType, h >> \in P.handlers THEN 1 ELSE 0)
       + (IF eventType \in ForwardedTypes
            THEN P.forwards * emit(listeners, eventType)[h] ELSE 0)]

(* UniversalMap.setupEventForwarding *)
setupEventForwarding(PS, p) ==
  IF p = 0 THEN PS ELSE [PS EXCEPT ![p].forwards = @ + 1]

(* The last operation: its name, its argument (or the diagnostic it        *)
(* logged), how it ended, the provider method it called ("-": none), the   *)
(* handler invocations it made and the provider it ran on (0: none).       *)
UmOp(op, arg, outcome, delegated, invoked, prov) ==
  [op |-> op, arg |-> arg, outcome |-> outcome, delegated |-> delegated,
   invoked |-> invoked, prov |-> prov]

(* the guard of initialize as it would be if it never saw the flag *)
AlreadyInitialized_Never == FALSE

(* if (this.initialized), the guard of UniversalMap.initialize *)
AlreadyInitialized == fInitialized

(* UniversalMap.initialize, up to the await of createProvider *)
UniversalMapInitialize ==
  IF AlreadyInitialized
    THEN /\ umLast' = UmOp("initialize", "Map is already initialized", "ok", "-", NoInvocations, umProvider)
         /\ UNCHANGED << fInitialized, fProvider, umProviders, umProvider, umInits, umListeners >>
    ELSE /\ Len(umInits) < MaxInits
         /\ umInits' = Append(umInits, [pc |-> "createProvider", p |-> 0])
         /\ umLast' = UmOp("initialize", "-", "pending", "-", NoInvocations, umProvider)
         /\ UNCHANGED << fInitialized, fProvider, umProviders, umProvider, umListeners >>

(* UniversalMap.initialize, from createProvider settling to the await of   *)
(* provider.initialize                                                     *)
CreateProviderSettles(i, made) ==
  /\ i \in 1 .. Len(umInits)
  /\ umInits[i].pc = "createProvider"
  /\ IF ~made.ok
       THEN /\ umInits' = RemoveAt(umInits, i)
            /\ umLast' = UmOp("createProvider settles", made.err, "INIT_ERROR", "-", NoInvocations, 0)
            /\ UNCHANGED << fInitialized, fProvider, umProviders, umProvider, umListeners >>
       ELSE /\ Len(umProviders) < MaxProviders
            /\ umProviders' = Append(umProviders, NewProvider)
            /\ umProvider' = Len(umProviders) + 1
            /\ fProvider' = TRUE
            /\ umInits' = [umInits EXCEPT ![i] = [pc |-> "initialize", p |-> Len(umProviders) + 1]]
            /\ umLast' = UmOp("createProvider settles", "-", "pending", "initialize", NoInvocations, Len(umProviders) + 1)
            /\ UNCHANGED << fInitialized, umListeners >>

(* UniversalMap.initialize, after provider.initialize has settled *)
ProviderInitializeSettles(i, ok) ==
  /\ i \in 1 .. Len(umInits)
  /\ umInits[i].pc = "initialize"
  /\ LET p == umInits[i].p
         PS == IF umProviders[p].state = "initializing"
                 THEN [umProviders EXCEPT ![p].state = IF ok THEN "ready" ELSE "failed"]
                 ELSE umProviders
     IN IF ok
          THEN /\ fInitialized' = TRUE
               /\ umProviders' = setupEventForwarding(PS, umProvider)
               /\ umLast' = UmOp("provider.initialize settles", "-", "ok", "-", emit(umListeners, "load"), p)
          ELSE /\ umProviders' = PS
               /\ umLast' = UmOp("provider.initialize settles", "-", "INIT_ERROR", "-", NoInvocations, p)
               /\ UNCHANGED fInitialized
  /\ umInits' = RemoveAt(umInits, i)
  /\ UNCHANGED << fProvider, umProvider, umListeners >>

(* UniversalMap.destroy *)
UniversalMapDestroy ==
  /\ umProviders' = IF umProvider # 0
                      THEN [umProviders EXCEPT ![umProvider].state = "destroyed"]
                      ELSE umProviders
  /\ umProvider' = 0
  /\ fProvider' = FALSE
  /\ umListeners' = {}
  /\ fInitialized' = FALSE
  /\ umLast' = UmOp("destroy", "-", "ok", IF umProvider # 0 THEN "destroy" ELSE "-", NoInvocations, umProvider)
  /\ UNCHANGED umInits

(* UniversalMap.on *)
UniversalMapOn(eventType, handler) ==
  /\ umListeners' = umListeners \cup {<< eventType, handler >>}
  /\ umProviders' = IF umProvider # 0
                      THEN [umProviders EXCEPT ![umProvider].handlers = @ \cup {<< eventType, handler >>}]
                      ELSE umProviders
  /\ umLast' = UmOp("on", eventType, "ok", IF umProvider # 0 THEN "on" ELSE "-", NoInvocations, umProvider)
  /\ UNCHANGED << fInitialized, fProvider, umProvider, umInits >>

(* UniversalMap.off *)
UniversalMapOff(eventType, handler) ==
  /\ umListeners' = umListeners \ {<< eventType, handler >>}
  /\ umProviders' = IF umProvider # 0
                      THEN [umProviders EXCEPT ![umProvider].handlers = @ \ {<< eventType, handler >>}]
                      ELSE umProviders
  /\ umLast' = UmOp("off", eventType, "ok", IF umProvider # 0 THEN "off" ELSE "-", NoInvocations, umProvider)
  /\ UNCHANGED << fInitialized, fProvider, umProvider, umInits >>

(* A view, bounds or layer operation of UniversalMap: ensureInitialized,   *)
(* then the call of the provider's method.                                 *)
UniversalMapOperation(op) ==
  /\ umLast' = IF ~ensureInitialized
                 THEN UmOp(op, "-", "NOT_INITIALIZED", "-", NoInvocations, umProvider)
               ELSE IF umProvider = 0
                 THEN UmOp(op, "-", "TypeError", "-", NoInvocations, umProvider)
               ELSE UmOp(op, "-", "ok", ProviderMethod(op), NoInvocations, umProvider)
  /\ UNCHANGED << fInitialized, fProvider, umProviders, umProvider, umInits, umListeners >>

(* A provider that is initialized and not destroyed emits an event. *)
ProviderEmits(p, eventType) ==
  /\ p \in 1 .. Len(umProviders)
  /\ umProviders[p].state = "ready"
  /\ umLast' = UmOp("provider.emit", eventType, "ok", "-",
                    providerEmit(umProviders[p], umListeners, eventType), p)
  /\ UNCHANGED << fInitialized, fProvider, umProviders, umProvider, umInits, umListeners >>

---------------------------------------------------------------------------
(* GoogleMapsAPILoader, the singleton behind loadGoogleMapsAPI.  Its       *)
(* record holds the fields status, loadPromise (an index into promises, 0: *)
(* undefined) and error (the Error object that promise of that index was   *)
(* rejected with, 0: undefined); window.google?.maps (google); the         *)
(* script elements appended to document.head (scripts); the promises       *)
(* loadScript has made, each with its state and whether a script element   *)
(* will settle it; and the load() calls made, each with the branch it took *)
(* (kind), the promise it awaits, the state of the promise it returned and   *)
(* the error that promise was rejected with.                               *)

NewLoader ==
  [status |-> "NOT_LOADED", loadPromise |-> 0, error |-> 0, google |-> FALSE,
   scripts |-> 0, promises |-> << >>, calls |-> << >>]

LoadCall(kind, promise, state) ==
  [kind |-> kind, promise |-> promise, state |-> state, error |-> 0]

(* GoogleMapsAPILoader.loadScript: the promise it returns and the script   *)
(* element it appends unless window.google.maps is there already           *)
loadScript(L) ==
  IF L.google
    THEN [L EXCEPT !.promises = Append(@, [state |-> "fulfilled", script |-> FALSE])]
    ELSE [L EXCEPT !.promises = Append(@, [state |-> "pending", script |-> TRUE]),
                   !.scripts = @ + 1]

(* load as it would be if a failed load were started again *)
loaderLoad_RetriesAfterFailure(L) ==
  IF L.status = "LOADED" /\ L.google
    THEN [L EXCEPT !.calls = Append(@, LoadCall("immediate", 0, "resolved"))]
  ELSE IF L.status = "LOADING" /\ L.loadPromise # 0
    THEN [L EXCEPT !.calls = Append(@, LoadCall("shared", L.loadPromise, "pending"))]
  ELSE LET L1 == loadScript([L EXCEPT !.status = "LOADING"])
       IN [L1 EXCEPT !.loadPromise = Len(L1.promises),
                     !.calls = Append(@, LoadCall("starter", Len(L1.promises), "pending"))]

(* load as it would be without the test for a load in flight *)
loaderLoad_NoInflightTest(L) ==
  IF L.status = "LOADED" /\ L.google
    THEN [L EXCEPT !.calls = Append(@, LoadCall("immediate", 0, "resolved"))]
  ELSE IF L.status = "FAILED" /\ L.error # 0
    THEN [L EXCEPT !.calls = Append(@, [LoadCall("thrown", 0, "rejected")
                                          EXCEPT !.error = L.error])]
  ELSE LET L1 == loadScript([L EXCEPT !.status = "LOADING"])
       IN [L1 EXCEPT !.loadPromise = Len(L1.promises),
                     !.calls = Append(@, LoadCall("starter", Len(L1.promises), "pending"))]

(* GoogleMapsAPILoader.load, up to its await (or its return or throw) *)
loaderLoad(L) ==
  IF L.status = "LOADED" /\ L.google
    THEN [L EXCEPT !.calls = Append(@, LoadCall("immediate", 0, "resolved"))]
  ELSE IF L.status = "LOADING" /\ L.loadPromise # 0
    THEN [L EXCEPT !.calls = Append(@, LoadCall("shared", L.loadPromise, "pending"))]
  ELSE IF L.status = "FAILED" /\ L.error # 0
    THEN [L EXCEPT !.calls = Append(@, [LoadCall("thrown", 0, "rejected")
                                          EXCEPT !.error = L.error])]
  ELSE LET L1 == loadScript([L EXCEPT !.status = "LOADING"])
       IN [L1 EXCEPT !.loadPromise = Len(L1.promises),
                     !.calls = Append(@, LoadCall("starter", Len(L1.promises), "pending"))]

(* loadGoogleMapsAPI(options) *)
LoadGoogleMapsAPI ==
  /\ Len(loader.calls) < MaxLoads
  /\ loader' = loaderLoad(loader)

(* The script element of promise p fires 'load' (the script has defined    *)
(* window.google.maps, or has not) or 'error'.                             *)
ScriptEvents == {"load", "load without google.maps", "error"}
ScriptSettles(p, event) ==
  /\ p \in DOMAIN loader.promises
  /\ loader.promises[p].script
  /\ loader.promises[p].state = "pending"
  /\ loader' = [loader EXCEPT
        !.google = @ \/ event = "load",
        !.promises[p].state = IF loader.google \/ event = "load"
                                THEN (IF event = "error" THEN "rejected" ELSE "fulfilled")
                                ELSE "rejected"]

(* load() of call c resumes after its await of this.loadPromise *)
LoadResumes(c) ==
  /\ c \in DOMAIN loader.calls
  /\ loader.calls[c].kind = "starter"
  /\ loader.calls[c].state = "pending"
  /\ loader.promises[loader.calls[c].promise].state # "pending"
  /\ loader' = IF loader.promises[loader.calls[c].promise].state = "fulfilled"
                 THEN [loader EXCEPT !.status = "LOADED", !.calls[c].state = "resolved"]
                 ELSE [loader EXCEPT !.status = "FAILED",
                                     !.error = loader.calls[c].promise,
                                     !.calls[c].state = "rejected",
                                     !.calls[c].error = loader.calls[c].promise]

(* the promise a call returned for this.loadPromise follows it *)
SharedSettles(c) ==
  /\ c \in DOMAIN loader.calls
  /\ loader.calls[c].kind = "shared"
  /\ loader.calls[c].state = "pending"
  /\ loader.promises[loader.calls[c].promise].state # "pending"
  /\ loader' = IF loader.promises[loader.calls[c].promise].state = "fulfilled"
                 THEN [loader EXCEPT !.calls[c].state = "resolved"]
                 ELSE [loader EXCEPT !.calls[c].state = "rejected",
                                     !.calls[c].error = loader.calls[c].promise]

---------------------------------------------------------------------------
(* EventEmitter.  keys holds the event types the listeners Map has an      *)
(* entry for, listeners the handlers of the Set of each, in insertion      *)
(* order (<< >> for a type without an entry), once the onceHandler         *)
(* closures that once has made.                                            *)

(* The handlers of the model: f returns, g and k throw, and r emits the    *)
(* event it is handed again, unless it is called from such an emit.        *)
(* EmitterHandlers are those subscribed where once is not called;          *)
(* OnceHandlers are those handed to once, OnHandlers those handed to on    *)
(* and off next to them.                                                   *)
EmitterHandlers == {"f", "g", "k"}
OnceHandlers == {"f", "g", "r"}
OnHandlers == {"f"}
Throws(h) == h \in {"g", "k"}
ReEmits(h) == h = "r"

Handlers_of(hs) == {hs[i] : i \in DOMAIN hs}

(* The last EventEmitter operation: its name, its event type, and for emit *)
(* the handlers it invoked, in order, the errors it logged and whether it  *)
(* threw.                                                                  *)
EeOp(op, type, invoked, logged, threw) ==
  [op |-> op, type |-> type, invoked |-> invoked, logged |-> logged, threw |-> threw]

NewEventEmitter ==
  [listeners |-> [t \in EventInputs |-> << >>], keys |-> {}, once |-> << >>,
   last |-> EeOp("new", "-", << >>, 0, FALSE)]

(* The i-th onceHandler closure made, as it stands in a Set of handlers. *)
OnceHandler(i) == "once" \o ToString(i)
IsOnceHandler(E, h) == \E i \in DOMAIN E.once : OnceHandler(i) = h
OnceIndex(E, h) == CHOOSE i \in DOMAIN E.once : OnceHandler(i) = h

(* EventEmitter.on *)
eeOn(E, eventType, handler) ==
  [E EXCEPT !.keys = @ \cup {eventType},
            !.listeners[eventType] =
               IF handler \in Handlers_of(@) THEN @ ELSE Append(@, handler)]

(* off as it would be if it left the emptied Set in the Map *)
eeOff_KeepsEmptySet(E, eventType, handler) ==
  IF eventType \notin E.keys THEN E
  ELSE [E EXCEPT !.listeners[eventType] = SelectSeq(@, LAMBDA h : h # handler)]

(* EventEmitter.off *)
eeOff(E, eventType, handler) ==
  IF eventType \notin E.keys THEN E
  ELSE LET handlers == SelectSeq(E.listeners[eventType], LAMBDA h : h # handler)
       IN [E EXCEPT !.listeners[eventType] = handlers,
                    !.keys = IF handlers = << >> THEN @ \ {eventType} ELSE @]

(* EventEmitter.once: a new onceHandler closure over handler, subscribed   *)
eeOnce(E, eventType, handler) ==
  LET i == Len(E.once) + 1
  IN eeOn([E EXCEPT !.once = Append(@, [type |-> eventType, handler |-> handler,
                                         called |-> FALSE])],
          eventType, OnceHandler(i))

(* EventEmitter.listenerCount *)
listenerCount(E, eventType) ==
  IF eventType \in E.keys THEN Len(E.listeners[eventType]) ELSE 0

(* EventEmitter.eventNames *)
eventNames(E) == E.keys

(* EventEmitter.hasListeners *)
hasListeners(E, eventType) == listenerCount(E, eventType) > 0

(* A run of emit: the emitter as the handlers called so far have left it,  *)
(* the handlers invoked, in order, the errors logged, whether r is inside  *)
(* its own emit, and whether an exception is on its way out.               *)
Run(E) == [E |-> E, invoked |-> << >>, logged |-> 0, busy |-> FALSE, threw |-> FALSE]

RECURSIVE forEachHandler(_, _, _)

(* EventEmitter.emit, from the inside *)
emitRun(R, eventType) ==
  IF eventType \in R.E.keys THEN forEachHandler(R, eventType, {}) ELSE R

(* handler(event) for one of the handlers of the model *)
callPlain(R, eventType, h) ==
  IF Throws(h) THEN [R EXCEPT !.threw = TRUE]
  ELSE IF ReEmits(h) /\ ~R.busy
    THEN [emitRun([R EXCEPT !.busy = TRUE], eventType) EXCEPT !.busy = FALSE]
  ELSE R

(* handler(event) for a member of the Set: for a onceHandler closure it is *)
(* handler(event) and then this.off(eventType, onceHandler), which a throw *)
(* of handler skips                                                        *)
callHandler(R, eventType, h) ==
  LET R1 == [R EXCEPT !.invoked = Append(@, h)]
  IN IF IsOnceHandler(R.E, h)
       THEN LET i == OnceIndex(R.E, h)
                out == callPlain([R1 EXCEPT !.E.once[i].called = TRUE],
                                 eventType, R.E.once[i].handler)
            IN IF out.threw THEN out
               ELSE [out EXCEPT !.E = eeOff(@, R.E.once[i].type, h)]
     ELSE callPlain(R1, eventType, h)

(* the body of emit's forEach as it would be without try/catch *)
tryHandler_NoCatch(R, eventType, h) == callHandler(R, eventType, h)

(* the body of emit's forEach: the handler is called inside try/catch, a   *)
(* throw is logged                                                         *)
tryHandler(R, eventType, h) ==
  LET out == callHandler(R, eventType, h)
  IN IF out.threw THEN [out EXCEPT !.threw = FALSE, !.logged = @ + 1] ELSE out

(* handlers.forEach of emit after the handlers in visited: the Set is      *)
(* walked in insertion order, a handler deleted before its turn is not     *)
(* called, and an exception leaving the callback ends the walk             *)
forEachHandler(R, eventType, visited) ==
  LET rest == SelectSeq(R.E.listeners[eventType], LAMBDA h : h \notin visited)
  IN IF rest = << >> \/ R.threw THEN R
     ELSE forEachHandler(tryHandler(R, eventType, rest[1]), eventType,
                         visited \cup {rest[1]})

(* EventEmitter.on *)
EmitterOn(eventType, handler) ==
  /\ ee' = [eeOn(ee, eventType, handler) EXCEPT
              !.last = EeOp("on", eventType, << >>, 0, FALSE)]

(* EventEmitter.off *)
EmitterOff(eventType, handler) ==
  /\ ee' = [eeOff(ee, eventType, handler) EXCEPT
              !.last = EeOp("off", eventType, << >>, 0, FALSE)]

(* EventEmitter.once *)
EmitterOnce(eventType, handler) ==
  /\ Len(ee.once) < MaxOnce
  /\ ee' = [eeOnce(ee, eventType, handler) EXCEPT
              !.last = EeOp("once", eventType, << >>, 0, FALSE)]

(* EventEmitter.emit *)
EmitterEmit(eventType) ==
  LET out == emitRun(Run(ee), eventType)
  IN ee' = [out.E EXCEPT
              !.last = EeOp("emit", eventType, out.invoked, out.logged, out.threw)]

(* EventEmitter.removeAllListeners(eventType) *)
EmitterRemoveAllListeners(eventType) ==
  /\ ee' = [ee EXCEPT !.listeners[eventType] = << >>, !.keys = @ \ {eventType},
                      !.last = EeOp("removeAllListeners", eventType, << >>, 0, FALSE)]

(* EventEmitter.removeAllListeners() *)
EmitterClear ==
  /\ ee' = [ee EXCEPT !.listeners = [t \in EventInputs |-> << >>], !.keys = {},
                      !.last = EeOp("removeAllListeners", "-", << >>, 0, FALSE)]

---------------------------------------------------------------------------
(* The range validators.  A JavaScript number is a record: a finite number *)
(* with its value in tenths (5 is 0.5), NaN, Infinity or -Infinity.        *)

Num(v) == [k |-> "finite", v |-> v]
NaN == [k |-> "NaN", v |-> 0]
PosInfinity == [k |-> "Infinity", v |-> 0]
NegInfinity == [k |-> "-Infinity", v |-> 0]
Tenths(n) == Num(10 * n)

(* a < b for two numbers neither of which is NaN *)
JsLess(a, b) ==
  CASE a.k = "-Infinity" -> b.k # "-Infinity"
    [] a.k = "Infinity" -> FALSE
    [] b.k = "-Infinity" -> FALSE
    [] b.k = "Infinity" -> TRUE
    [] OTHER -> a.v < b.v

(* Math.min and Math.max: NaN when an argument is NaN *)
MathMin(a, b) ==
  IF a.k = "NaN" \/ b.k = "NaN" THEN NaN ELSE IF JsLess(b, a) THEN b ELSE a
MathMax(a, b) ==
  IF a.k = "NaN" \/ b.k = "NaN" THEN NaN ELSE IF JsLess(a, b) THEN b ELSE a

(* a % n for a finite n above 0: the remainder has the sign of a, and is   *)
(* NaN when a is not finite                                                *)
JsRemainder(a, n) ==
  IF a.k # "finite" THEN NaN
  ELSE IF a.v >= 0 THEN Num(a.v % n.v) ELSE Num(0 - ((0 - a.v) % n.v))

(* a + n for a finite n *)
JsPlus(a, n) == IF a.k = "finite" THEN Num(a.v + n.v) ELSE a

(* ZOOM_LEVELS.MIN and ZOOM_LEVELS.MAX *)
ZOOM_LEVELS == [MIN |-> Tenths(0), MAX |-> Tenths(22)]

(* validateZoom *)
validateZoom(zoom) == MathMax(ZOOM_LEVELS.MIN, MathMin(ZOOM_LEVELS.MAX, zoom))

(* validateOpacity *)
validateOpacity(opacity) == MathMax(Tenths(0), MathMin(Tenths(1), opacity))

(* validateBearing *)
validateBearing(bearing) ==
  JsRemainder(JsPlus(JsRemainder(bearing, Tenths(360)), Tenths(360)), Tenths(360))

(* validatePitch *)
validatePitch(pitch) == MathMax(Tenths(0), MathMin(Tenths(60), pitch))

Validators == {"validateZoom", "validateOpacity", "validateBearing", "validatePitch"}
ApplyValidator(fn, x) ==
  CASE fn = "validateZoom" -> validateZoom(x)
    [] fn = "validateOpacity" -> validateOpacity(x)
    [] fn = "validateBearing" -> validateBearing(x)
    [] fn = "validatePitch" -> validatePitch(x)

(* The numbers the validators are called with: inside, on and outside the  *)
(* bounds of each range, negative, beyond one turn, and not finite.        *)
ValidatorInputs ==
  {Num(v) : v \in {-7250, -3600, -450, -1, 0, 5, 10, 11, 220, 225, 600, 3599, 3600, 4050}}
    \cup {NaN, PosInfinity, NegInfinity}

(* a call of one of the validators *)
Validate(fn, x) ==
  /\ Len(validated) < MaxValidated
  /\ validated' = Append(validated, [fn |-> fn, arg |-> x, result |-> ApplyValidator(fn, x)])

---------------------------------------------------------------------------
(* GoogleMapsEventMapper.  Its record holds this.listeners (the listeners  *)
(* it has added and tracks), the listeners attached to the map, the events *)
(* its eventCallback has received, and the last thing that happened.       *)

(* The events a google.maps.Map fires in the model: the eleven the mapper  *)
(* listens to, and two it does not.                                        *)
NativeEvents ==
  {"click", "dblclick", "rightclick", "mousemove", "zoom_changed", "center_changed",
   "dragstart", "dragend", "heading_changed", "tilt_changed", "tilesloaded",
   "idle", "bounds_changed"}

Listener(event, type) == [event |-> event, type |-> type]

(* setupEventListeners as it would be if 'rightclick' were passed on as a  *)
(* click                                                                   *)
setupEventListeners_RightClickAsClick ==
  << Listener("click", "click"), Listener("dblclick", "dblclick"),
     Listener("rightclick", "click"), Listener("mousemove", "mousemove"),
     Listener("zoom_changed", "zoom"), Listener("center_changed", "move"),
     Listener("dragstart", "movestart"), Listener("dragend", "moveend"),
     Listener("heading_changed", "rotate"), Listener("tilt_changed", "pitch"),
     Listener("tilesloaded", "load") >>

(* GoogleMapsEventMapper.setupEventListeners: the listeners it adds, each  *)
(* with the native event it is added for and the type of the event it      *)
(* creates for eventCallback                                               *)
setupEventListeners ==
  << Listener("click", "click"), Listener("dblclick", "dblclick"),
     Listener("rightclick", "contextmenu"), Listener("mousemove", "mousemove"),
     Listener("zoom_changed", "zoom"), Listener("center_changed", "move"),
     Listener("dragstart", "movestart"), Listener("dragend", "moveend"),
     Listener("heading_changed", "rotate"), Listener("tilt_changed", "pitch"),
     Listener("tilesloaded", "load") >>

MapperOp(op, event) == [op |-> op, event |-> event]

(* new GoogleMapsEventMapper(map, eventCallback) *)
NewEventMapper ==
  [listeners |-> setupEventListeners, attached |-> setupEventListeners,
   received |-> << >>, last |-> MapperOp("new", "-")]

(* The map fires a native event: each listener attached for it runs. *)
MapFires(event) ==
  /\ Len(mapper.received) < MaxEvents
  /\ LET fired == SelectSeq(mapper.attached, LAMBDA l : l.event = event)
     IN mapper' = [mapper EXCEPT
          !.received = @ \o [i \in DOMAIN fired |-> fired[i].type],
          !.last = MapperOp("fire", event)]

(* GoogleMapsEventMapper.destroy *)
MapperDestroy ==
  /\ mapper' = [mapper EXCEPT
        !.attached = SelectSeq(@, LAMBDA l : l \notin {mapper.listeners[i] : i \in DOMAIN mapper.listeners}),
        !.listeners = << >>,
        !.last = MapperOp("destroy", "-")]

---------------------------------------------------------------------------
(* Specifications.                                                         *)

(* A LayerManager after construction. *)
InitLM ==
  /\ layers = [i \in LayerIds |-> None]
  /\ lmNextUid = 1
  /\ lmLast = LmOp("new", None, None, "ok")
  /\ lmDestroyed = DestroyCalls({})

(* A GoogleMapsProvider and a UniversalMap after construction. *)
InitGP ==
  /\ pState = "new"
  /\ pLayers = [i \in LayerIds |-> None]
  /\ gm = NewLayerManager
  /\ pLast = POp("new", "-", None, "ok")
  /\ fInitialized = FALSE
  /\ fProvider = FALSE

(* A UniversalMap's emitter, providers and initialize calls after construction. *)
InitUM ==
  /\ umProviders = << >>
  /\ umProvider = 0
  /\ umInits = << >>
  /\ umListeners = {}
  /\ umLast = UmOp("new", "-", "ok", "-", NoInvocations, 0)
  /\ rt = [r |-> [kind |-> "ok", body |-> "{A}"], log |-> << >>]
  /\ created = << >>
  /\ normalized = << >>
  /\ ee = NewEventEmitter
  /\ loader = NewLoader
  /\ mapper = NewEventMapper
  /\ validated = << >>

(* One DataSource built by createDataSource from a supported descriptor,   *)
(* used through the reference createDataSource returned.                   *)
InitDS ==
  /\ \E d \in RemoteDescriptors \cup LocalDescriptors :
        objs = << createDataSource(d).inst >>
  /\ sources = [i \in SourceIds |-> 0]
  /\ calls = << >>
  /\ dsLast = Op("new", "-", 0, "ok", "undefined", FALSE)
  /\ InitLM
  /\ InitGP
  /\ InitUM

NextDS ==
  \/ \E o \in Refs : Load(o) /\ UNCHANGED << lmVars, gpVars, umVars, rt, created, normalized, ee, loader, mapper, validated >>
  \/ \E c \in CallIds, r \in Responses : FetchReturns(c, r) /\ UNCHANGED << lmVars, gpVars, umVars, rt, created, normalized, ee, loader, mapper, validated >>
  \/ \E o \in Refs : Destroy(o) /\ UNCHANGED << lmVars, gpVars, umVars, rt, created, normalized, ee, loader, mapper, validated >>

SpecDS == InitDS /\ [][NextDS]_vars

(* One DataSource built by createDataSource from a descriptor its load()   *)
(* accepts, behind an endpoint that answers every fetch alike, and a       *)
(* caller that awaits load(), calls destroy() and awaits load() again.     *)
ValidDescriptors ==
  { d \in RemoteDescriptors \cup LocalDescriptors :
      LoadStart(createDataSource(d).inst).pc # "rejected" }
OkResponses == { r \in Responses : r.kind = "ok" }

Logged(L) ==
  Append(L, [op |-> dsLast'.op, outcome |-> dsLast'.outcome, res |-> dsLast'.res,
             loaded |-> isLoaded(objs'[1])])

InitRT ==
  /\ \E d \in ValidDescriptors : objs = << createDataSource(d).inst >>
  /\ sources = [i \in SourceIds |-> 0]
  /\ calls = << >>
  /\ dsLast = Op("new", "-", 0, "ok", "undefined", FALSE)
  /\ InitLM
  /\ InitGP
  /\ umProviders = << >> /\ umProvider = 0 /\ umInits = << >> /\ umListeners = {}
  /\ umLast = UmOp("new", "-", "ok", "-", NoInvocations, 0)
  /\ \E r \in OkResponses : rt = [r |-> r, log |-> << >>]
  /\ created = << >>
  /\ normalized = << >>
  /\ ee = NewEventEmitter
  /\ loader = NewLoader
  /\ mapper = NewEventMapper
  /\ validated = << >>

NextRT ==
  \/ /\ Len(rt.log) \in {0, 2} /\ calls = << >>
     /\ Load(1)
     /\ rt' = IF calls' = << >> THEN [rt EXCEPT !.log = Logged(@)] ELSE rt
     /\ UNCHANGED << lmVars, gpVars, umVars, created, normalized, ee, loader, mapper, validated >>
  \/ /\ calls # << >>
     /\ FetchReturns(1, rt.r)
     /\ rt' = [rt EXCEPT !.log = Logged(@)]
     /\ UNCHANGED << lmVars, gpVars, umVars, created, normalized, ee, loader, mapper, validated >>
  \/ /\ Len(rt.log) = 1
     /\ Destroy(1)
     /\ rt' = [rt EXCEPT !.log = Logged(@)]
     /\ UNCHANGED << lmVars, gpVars, umVars, created, normalized, ee, loader, mapper, validated >>

SpecRT == InitRT /\ [][NextRT]_vars

(* A DataSourceManager after construction, and the instances it hands out. *)
InitDSM ==
  /\ objs = << >>
  /\ sources = [i \in SourceIds |-> 0]
  /\ calls = << >>
  /\ dsLast = Op("new", "-", 0, "ok", "undefined", FALSE)
  /\ InitLM
  /\ InitGP
  /\ InitUM

NextDSM ==
  \/ \E id \in SourceIds, d \in ManagerDescriptors : registerSource(id, d) /\ UNCHANGED << lmVars, gpVars, umVars, rt, created, normalized, ee, loader, mapper, validated >>
  \/ \E id \in SourceIds : removeSource(id) /\ UNCHANGED << lmVars, gpVars, umVars, rt, created, normalized, ee, loader, mapper, validated >>
  \/ clear /\ UNCHANGED << lmVars, gpVars, umVars, rt, created, normalized, ee, loader, mapper, validated >>
  \/ \E id \in SourceIds : loadSource(id) /\ UNCHANGED << lmVars, gpVars, umVars, rt, created, normalized, ee, loader, mapper, validated >>
  \/ \E c \in CallIds, r \in ManagerResponses : FetchReturns(c, r) /\ UNCHANGED << lmVars, gpVars, umVars, rt, created, normalized, ee, loader, mapper, validated >>
  \/ \E o \in Refs : Destroy(o) /\ UNCHANGED << lmVars, gpVars, umVars, rt, created, normalized, ee, loader, mapper, validated >>

SpecDSM == InitDSM /\ [][NextDSM]_vars

(* The DataSourceFactory, called with descriptors of every tag: the five   *)
(* it dispatches on, 'custom' (a DataSourceType it has no case for) and a  *)
(* tag outside DataSourceType.                                             *)
FactoryDescriptors ==
  Descriptors \cup { Descriptor("custom", Some("{FeatureCollection}"), None),
                     Descriptor("wms", None, Some("https://x/tiles/{z}")) }

CreateDataSource(config) ==
  /\ Len(created) < MaxCreated
  /\ created' = Append(created, [config |-> config, made |-> createDataSource(config)])
  /\ UNCHANGED << dsVars, lmVars, gpVars, umVars, rt, normalized, ee, loader, mapper, validated >>

NextDSF == \E d \in FactoryDescriptors : CreateDataSource(d)

SpecDSF == InitDSM /\ [][NextDSF]_vars

(* DataSourceFactory.normalizeSource, called with strings and objects. *)
NormalizeSource(source) ==
  /\ Len(normalized) < MaxNormalized
  /\ normalized' = Append(normalized, [source |-> source, result |-> normalizeSource(source)])
  /\ UNCHANGED << dsVars, lmVars, gpVars, umVars, rt, created, ee, loader, mapper, validated >>

NextNS == \E source \in SourceInputs : NormalizeSource(source)

SpecNS == InitDSM /\ [][NextNS]_vars

(* An EventEmitter whose handlers may throw. *)
NextEE ==
  \/ \E t \in EventInputs, h \in EmitterHandlers :
       EmitterOn(t, h) /\ UNCHANGED << dsVars, lmVars, gpVars, umVars, rt, created, normalized, loader, mapper, validated >>
  \/ \E t \in EventInputs, h \in EmitterHandlers :
       EmitterOff(t, h) /\ UNCHANGED << dsVars, lmVars, gpVars, umVars, rt, created, normalized, loader, mapper, validated >>
  \/ \E t \in EventInputs :
       EmitterEmit(t) /\ UNCHANGED << dsVars, lmVars, gpVars, umVars, rt, created, normalized, loader, mapper, validated >>
  \/ \E t \in EventInputs :
       EmitterRemoveAllListeners(t) /\ UNCHANGED << dsVars, lmVars, gpVars, umVars, rt, created, normalized, loader, mapper, validated >>

SpecEE == InitDSM /\ [][NextEE]_vars

(* An EventEmitter under on, off, once, emit and removeAllListeners, with  *)
(* handlers that return, throw or emit again.                              *)
NextEO ==
  \/ \E t \in EventInputs, h \in OnHandlers :
       EmitterOn(t, h) /\ UNCHANGED << dsVars, lmVars, gpVars, umVars, rt, created, normalized, loader, mapper, validated >>
  \/ \E t \in EventInputs, h \in OnHandlers :
       EmitterOff(t, h) /\ UNCHANGED << dsVars, lmVars, gpVars, umVars, rt, created, normalized, loader, mapper, validated >>
  \/ \E t \in EventInputs, h \in OnceHandlers :
       EmitterOnce(t, h) /\ UNCHANGED << dsVars, lmVars, gpVars, umVars, rt, created, normalized, loader, mapper, validated >>
  \/ \E t \in EventInputs :
       EmitterEmit(t) /\ UNCHANGED << dsVars, lmVars, gpVars, umVars, rt, created, normalized, loader, mapper, validated >>
  \/ \E t \in EventInputs :
       EmitterRemoveAllListeners(t) /\ UNCHANGED << dsVars, lmVars, gpVars, umVars, rt, created, normalized, loader, mapper, validated >>
  \/ EmitterClear /\ UNCHANGED << dsVars, lmVars, gpVars, umVars, rt, created, normalized, loader, mapper, validated >>

SpecEO == InitDSM /\ [][NextEO]_vars

(* The GoogleMapsAPILoader singleton under calls of loadGoogleMapsAPI, in  *)
(* a page that has the API already or has not.                             *)
InitLD ==
  /\ objs = << >>
  /\ sources = [i \in SourceIds |-> 0]
  /\ calls = << >>
  /\ dsLast = Op("new", "-", 0, "ok", "undefined", FALSE)
  /\ InitLM
  /\ InitGP
  /\ umProviders = << >> /\ umProvider = 0 /\ umInits = << >> /\ umListeners = {}
  /\ umLast = UmOp("new", "-", "ok", "-", NoInvocations, 0)
  /\ rt = [r |-> [kind |-> "ok", body |-> "{A}"], log |-> << >>]
  /\ created = << >>
  /\ normalized = << >>
  /\ ee = NewEventEmitter
  /\ \E g \in BOOLEAN : loader = [NewLoader EXCEPT !.google = g]
  /\ mapper = NewEventMapper
  /\ validated = << >>

NextLD ==
  \/ LoadGoogleMapsAPI /\ UNCHANGED << dsVars, lmVars, gpVars, umVars, rt, created, normalized, ee, mapper, validated >>
  \/ \E p \in 1 .. MaxLoads, event \in ScriptEvents :
       ScriptSettles(p, event) /\ UNCHANGED << dsVars, lmVars, gpVars, umVars, rt, created, normalized, ee, mapper, validated >>
  \/ \E c \in 1 .. MaxLoads :
       LoadResumes(c) /\ UNCHANGED << dsVars, lmVars, gpVars, umVars, rt, created, normalized, ee, mapper, validated >>
  \/ \E c \in 1 .. MaxLoads :
       SharedSettles(c) /\ UNCHANGED << dsVars, lmVars, gpVars, umVars, rt, created, normalized, ee, mapper, validated >>

SpecLD == InitLD /\ [][NextLD]_vars

(* A GoogleMapsEventMapper on a map that fires native events. *)
NextEM ==
  \/ \E event \in NativeEvents :
       MapFires(event) /\ UNCHANGED << dsVars, lmVars, gpVars, umVars, rt, created, normalized, ee, loader, validated >>
  \/ MapperDestroy /\ UNCHANGED << dsVars, lmVars, gpVars, umVars, rt, created, normalized, ee, loader, validated >>

SpecEM == InitDSM /\ [][NextEM]_vars

(* The range validators, called with numbers of every kind. *)
NextRV ==
  \/ \E fn \in Validators, x \in ValidatorInputs :
       Validate(fn, x) /\ UNCHANGED << dsVars, lmVars, gpVars, umVars, rt, created, normalized, ee, loader, mapper >>

SpecRV == InitDSM /\ [][NextRV]_vars

(* A LayerManager and the calls made on it. *)
InitLMgr ==
  /\ InitLM
  /\ InitGP
  /\ InitUM
  /\ objs = << >>
  /\ sources = [i \in SourceIds |-> 0]
  /\ calls = << >>
  /\ dsLast = Op("new", "-", 0, "ok", "undefined", FALSE)

NextLM ==
  \/ \E c \in AddConfigs : addLayer(c) /\ UNCHANGED << dsVars, gpVars, umVars, rt, created, normalized, ee, loader, mapper, validated >>
  \/ \E id \in LayerIds : removeLayer(id) /\ UNCHANGED << dsVars, gpVars, umVars, rt, created, normalized, ee, loader, mapper, validated >>
  \/ \E id \in LayerIds, u \in Patches : updateLayer(id, u) /\ UNCHANGED << dsVars, gpVars, umVars, rt, created, normalized, ee, loader, mapper, validated >>
  \/ clearLayers /\ UNCHANGED << dsVars, gpVars, umVars, rt, created, normalized, ee, loader, mapper, validated >>

SpecLM == InitLMgr /\ [][NextLM]_vars

(* A LayerManager whose updateLayer is given patches that carry id or type. *)
NextLMI ==
  \/ \E c \in AddConfigs \cup OpacityConfigs : addLayer(c) /\ UNCHANGED << dsVars, gpVars, umVars, rt, created, normalized, ee, loader, mapper, validated >>
  \/ \E id \in LayerIds : removeLayer(id) /\ UNCHANGED << dsVars, gpVars, umVars, rt, created, normalized, ee, loader, mapper, validated >>
  \/ \E id \in LayerIds, u \in IdentityPatches :
       updateLayer(id, u) /\ UNCHANGED << dsVars, gpVars, umVars, rt, created, normalized, ee, loader, mapper, validated >>
  \/ clearLayers /\ UNCHANGED << dsVars, gpVars, umVars, rt, created, normalized, ee, loader, mapper, validated >>

SpecLMI == InitLMgr /\ [][NextLMI]_vars

(* A GoogleMapsProvider used directly, and a UniversalMap. *)
InitProv ==
  /\ InitGP
  /\ InitLM
  /\ objs = << >>
  /\ sources = [i \in SourceIds |-> 0]
  /\ calls = << >>
  /\ dsLast = Op("new", "-", 0, "ok", "undefined", FALSE)
  /\ InitUM

NextGP ==
  \/ ProviderInitialize /\ UNCHANGED << dsVars, lmVars, umVars, rt, created, normalized, ee, loader, mapper, validated >>
  \/ \E apiOk \in BOOLEAN : ProviderInitialized(apiOk) /\ UNCHANGED << dsVars, lmVars, umVars, rt, created, normalized, ee, loader, mapper, validated >>
  \/ ProviderDestroy /\ UNCHANGED << dsVars, lmVars, umVars, rt, created, normalized, ee, loader, mapper, validated >>
  \/ \E c \in ProviderConfigs : ProviderAddLayer(c) /\ UNCHANGED << dsVars, lmVars, umVars, rt, created, normalized, ee, loader, mapper, validated >>
  \/ \E id \in LayerIds : ProviderRemoveLayer(id) /\ UNCHANGED << dsVars, lmVars, umVars, rt, created, normalized, ee, loader, mapper, validated >>
  \/ \E id \in LayerIds, u \in ProviderPatches :
       ProviderUpdateLayer(id, u) /\ UNCHANGED << dsVars, lmVars, umVars, rt, created, normalized, ee, loader, mapper, validated >>
  \/ \E id \in LayerIds, v \in Visibilities :
       ProviderSetLayerVisibility(id, v) /\ UNCHANGED << dsVars, lmVars, umVars, rt, created, normalized, ee, loader, mapper, validated >>
  \/ \E id \in LayerIds, o \in Opacities :
       ProviderSetLayerOpacity(id, o) /\ UNCHANGED << dsVars, lmVars, umVars, rt, created, normalized, ee, loader, mapper, validated >>
  \/ \E t \in 1 .. MaxPending, loadOk \in BOOLEAN :
       LayerLoadSettles(t, loadOk) /\ UNCHANGED << dsVars, lmVars, umVars, rt, created, normalized, ee, loader, mapper, validated >>
  \/ FacadeInitialize /\ UNCHANGED << dsVars, lmVars, umVars, rt, created, normalized, ee, loader, mapper, validated >>
  \/ \E id \in LayerIds, u \in ProviderPatches :
       FacadeUpdateLayer(id, u) /\ UNCHANGED << dsVars, lmVars, umVars, rt, created, normalized, ee, loader, mapper, validated >>
  \/ \E id \in LayerIds, v \in Visibilities :
       FacadeSetLayerVisibility(id, v) /\ UNCHANGED << dsVars, lmVars, umVars, rt, created, normalized, ee, loader, mapper, validated >>
  \/ \E id \in LayerIds, o \in Opacities :
       FacadeSetLayerOpacity(id, o) /\ UNCHANGED << dsVars, lmVars, umVars, rt, created, normalized, ee, loader, mapper, validated >>

SpecGP == InitProv /\ [][NextGP]_vars

(* A UniversalMap after construction, and the calls and events it sees. *)
InitUniversalMap == InitProv

NextUM ==
  \/ UniversalMapInitialize /\ UNCHANGED << dsVars, lmVars, pState, pLayers, gm, pLast, rt, created, normalized, ee, loader, mapper, validated >>
  \/ \E i \in 1 .. MaxInits, made \in {createProvider, createProviderResolved} :
       CreateProviderSettles(i, made) /\ UNCHANGED << dsVars, lmVars, pState, pLayers, gm, pLast, rt, created, normalized, ee, loader, mapper, validated >>
  \/ \E i \in 1 .. MaxInits, ok \in BOOLEAN :
       ProviderInitializeSettles(i, ok) /\ UNCHANGED << dsVars, lmVars, pState, pLayers, gm, pLast, rt, created, normalized, ee, loader, mapper, validated >>
  \/ UniversalMapDestroy /\ UNCHANGED << dsVars, lmVars, pState, pLayers, gm, pLast, rt, created, normalized, ee, loader, mapper, validated >>
  \/ \E t \in EventInputs, h \in Handlers :
       UniversalMapOn(t, h) /\ UNCHANGED << dsVars, lmVars, pState, pLayers, gm, pLast, rt, created, normalized, ee, loader, mapper, validated >>
  \/ \E t \in EventInputs, h \in Handlers :
       UniversalMapOff(t, h) /\ UNCHANGED << dsVars, lmVars, pState, pLayers, gm, pLast, rt, created, normalized, ee, loader, mapper, validated >>
  \/ \E op \in FacadeOperations :
       UniversalMapOperation(op) /\ UNCHANGED << dsVars, lmVars, pState, pLayers, gm, pLast, rt, created, normalized, ee, loader, mapper, validated >>
  \/ \E p \in 1 .. MaxProviders, t \in EventInputs :
       ProviderEmits(p, t) /\ UNCHANGED << dsVars, lmVars, pState, pLayers, gm, pLast, rt, created, normalized, ee, loader, mapper, validated >>

SpecUM == InitUniversalMap /\ [][NextUM]_vars

Spec == SpecGP

---------------------------------------------------------------------------
(* Properties of the DataSource variants (SpecDS).                         *)

(* C1: load() calls made on one remote DataSource while a fetch of it is   *)
(* in flight share that fetch: an instance never has two fetches in        *)
(* flight (none of them made stale by a destroy()).                        *)
C1_SingleFlight ==
  \A c1, c2 \in CallIds :
    (c1 # c2 /\ calls[c1].obj = calls[c2].obj) => (calls[c1].stale \/ calls[c2].stale)

(* C2: a fetch that comes back after destroy() ran on its instance does    *)
(* not set the loaded flag: the instance, not loaded before that step, is  *)
(* still not loaded after it and its payload is still cleared.             *)
C2_StaleFetchDiscarded ==
  [][(dsLast'.op = "settle" /\ dsLast'.stale /\ ~isLoaded(objs[dsLast'.obj]))
       => (~isLoaded(objs'[dsLast'.obj]) /\ objs'[dsLast'.obj].data = "null")]_vars

(* C3: load() on a remote DataSource that is loaded resolves at once to    *)
(* the memoized payload and issues no fetch, whatever the payload is.      *)
C3_LoadedIsMemoized ==
  [][\A o \in Refs :
       (objs[o].config \in RemoteDescriptors /\ isLoaded(objs[o])
          /\ dsLast'.op = "load" /\ dsLast'.obj = o)
       => (dsLast'.outcome = "resolved" /\ dsLast'.res = objs[o].data /\ calls' = calls)]_vars

(* C4: when a fetch fails (non-success response, transport failure), the   *)
(* load() rejects and leaves the DataSource not loaded with no payload,    *)
(* and the next load() issues a fetch.                                     *)
C4_FailedLoadNotLoaded ==
  [][/\ (dsLast'.op = "settle" /\ dsLast'.outcome = "rejected")
          => (~isLoaded(objs'[dsLast'.obj]) /\ objs'[dsLast'.obj].data = "null")
     /\ (dsLast.op = "settle" /\ dsLast.outcome = "rejected" /\ dsLast'.op = "load")
          => dsLast'.outcome = "fetching"]_vars

---------------------------------------------------------------------------
(* Properties of the registries (SpecLM, SpecDSM).                         *)

(* C5: an addLayer, updateLayer or registerSource call that throws leaves  *)
(* its registry and every stored entry as they were before the call.       *)
C5_FailedCallChangesNothing ==
  [][/\ (lmLast'.op \in {"addLayer", "updateLayer"} /\ lmLast'.outcome # "ok")
          => layers' = layers
     /\ (dsLast'.op = "registerSource" /\ dsLast'.outcome # "ok")
          => (sources' = sources /\ objs' = objs)]_vars

(* C6: addLayer with an id that is present throws the duplicate-id error   *)
(* and leaves the registry as it was: the entry is still the instance the  *)
(* first call stored, with its configuration, and it is the only layer of  *)
(* that id.                                                                *)
C6_DuplicateAddRejected ==
  [][\A id \in LayerIds :
       (layers[id] # None /\ lmLast'.op = "addLayer" /\ lmLast'.id = Some(id))
       => /\ lmLast'.outcome = "Layer already exists"
          /\ layers' = layers
          /\ {k \in LayerIds : layers'[k] # None /\ layers'[k][1].id = Some(id)} = {id}]_vars

(* C6's case: an addLayer has just been refused for an id that is present. *)
C6_Witness ==
  /\ lmLast.op = "addLayer"
  /\ lmLast.outcome = "Layer already exists"
  /\ layers[lmLast.id[1]] # None

(* C7: registerSource with an id that is registered throws and leaves the  *)
(* registered DataSource in place, neither replaced nor destroyed.         *)
C7_DuplicateSourceRejected ==
  [][\A id \in SourceIds :
       (sources[id] # 0 /\ dsLast'.op = "registerSource" /\ dsLast'.id = id)
       => (dsLast'.outcome # "ok" /\ sources' = sources /\ objs' = objs)]_vars

(* C8: after updateLayer with a patch that carries a style, every style    *)
(* field the layer had that the patch's style does not name is still       *)
(* there with its old value.                                               *)
C8_StyleMerged ==
  [][\A id \in LayerIds, k \in DOMAIN EmptyStyle :
       (/\ lmLast'.op = "updateLayer" /\ lmLast'.id = Some(id) /\ lmLast'.style # None
        /\ layers[id] # None /\ layers[id][1].config.style # None
        /\ layers[id][1].config.style[1][k] # None
        /\ lmLast'.style[1][k] = None)
       => (/\ layers'[id][1].config.style # None
           /\ layers'[id][1].config.style[1][k] = layers[id][1].config.style[1][k])]_vars

(* C15 (SpecRT): for every descriptor load() accepts, behind an endpoint    *)
(* that answers every fetch alike, load(), destroy(), load() in a row: the *)
(* second load gives what the first gave, isLoaded() is true after each    *)
(* load and false after destroy().                                         *)
C15_LoadDestroyLoad ==
  /\ Len(rt.log) >= 1 => rt.log[1].outcome = "resolved" /\ rt.log[1].loaded
  /\ Len(rt.log) >= 2 => ~rt.log[2].loaded
  /\ Len(rt.log) >= 3 => /\ rt.log[3].outcome = rt.log[1].outcome
                         /\ rt.log[3].res = rt.log[1].res
                         /\ rt.log[3].loaded

(* C15's case: the script has run to its end on a source that fetches, and *)
(* the endpoint answers with a falsy payload.                              *)
C15_Witness ==
  /\ Len(rt.log) = 3
  /\ rt.log[3].op = "settle"
  /\ rt.log[3].res = "null"

(* C14 (SpecLMI): every stored layer is keyed by its own id, its config     *)
(* carries the same id, and its type is that of its config, as given at    *)
(* construction, whatever patches updateLayer was given.                   *)
C14_IdAndTypeImmutable ==
  \A k \in LayerIds :
    layers[k] # None =>
      /\ layers[k][1].id = Some(k)
      /\ layers[k][1].config.id = Some(k)
      /\ layers[k][1].config.type = layers[k][1].type

(* C18: removeSource(id) destroys the source registered under id, which   *)
(* is then not loaded, and deletes that entry only; for an id that is not  *)
(* registered it changes nothing; clear() destroys every registered source *)
(* and leaves the registry empty.                                          *)
C18_RemoveSourceAndClear ==
  [][/\ \A id \in SourceIds :
          (dsLast'.op = "removeSource" /\ dsLast'.id = id)
          => /\ dsLast'.outcome = "ok"
             /\ sources[id] = 0 => UNCHANGED << objs, sources, calls >>
             /\ sources[id] # 0
                  => /\ ~isLoaded(objs'[sources[id]])
                     /\ objs'[sources[id]].data = "null"
                     /\ \A o \in Refs \ {sources[id]} : objs'[o] = objs[o]
                     /\ sources' = [sources EXCEPT ![id] = 0]
     /\ dsLast'.op = "clear"
          => /\ \A i \in SourceIds : sources'[i] = 0
             /\ \A i \in SourceIds :
                  sources[i] # 0 => /\ ~isLoaded(objs'[sources[i]])
                                    /\ objs'[sources[i]].data = "null"]_vars

(* C18's case: removeSource has destroyed and removed one source while     *)
(* another source is still registered and loaded.                          *)
C18_Witness ==
  /\ dsLast.op = "removeSource"
  /\ dsLast.obj # 0
  /\ ~isLoaded(objs[dsLast.obj])
  /\ sources[dsLast.id] = 0
  /\ \E i \in SourceIds : sources[i] # 0 /\ isLoaded(objs[sources[i]])

(* C19: loadSource(id) rejects with the not-found error when no source is  *)
(* registered under id, also after removeSource or clear; otherwise it is  *)
(* load() of the source registered under id.                               *)
C19_LoadSource ==
  [][\A id \in SourceIds :
       (dsLast'.op = "loadSource" /\ dsLast'.id = id)
       => IF sources[id] = 0
            THEN /\ dsLast'.outcome = "rejected"
                 /\ dsLast'.res = "Data source not found"
                 /\ UNCHANGED << objs, sources, calls >>
            ELSE LET out == LoadStart(objs[sources[id]])
                 IN /\ dsLast'.obj = sources[id]
                    /\ dsLast'.outcome = out.pc
                    /\ dsLast'.res = out.res.v
                    /\ objs' = [objs EXCEPT ![sources[id]] = out.inst]
                    /\ out.pc = "fetching"
                         => calls' = Append(calls, Call(sources[id]))
                    /\ out.pc # "fetching" => calls' = calls
                    /\ sources' = sources]_vars

(* C19's case: loadSource has rejected with not-found for an id whose      *)
(* source was registered and then removed.                                 *)
C19_Witness ==
  /\ dsLast.op = "loadSource"
  /\ dsLast.outcome = "rejected"
  /\ dsLast.res = "Data source not found"
  /\ Len(objs) >= 1
  /\ \A i \in SourceIds : sources[i] = 0

(* C20: createDataSource returns, for a descriptor tagged geojson, url,    *)
(* tiles, 3d-tiles or mock, an instance of the variant of that tag whose   *)
(* type is the tag; for any other tag it throws the unsupported-type error *)
(* that names the tag; and what a call gives depends on its descriptor     *)
(* only, not on the calls made before it.                                  *)
C20_FactoryDispatch ==
  \A i \in 1 .. Len(created) :
    LET c == created[i].config
        m == created[i].made
    IN /\ c.type \in {"geojson", "url", "tiles", "3d-tiles", "mock"}
            => /\ m.ok
               /\ m.inst.type = c.type
               /\ m.variant = (CASE c.type = "geojson" -> "GeoJSONDataSource"
                                 [] c.type = "url" -> "URLDataSource"
                                 [] c.type = "tiles" -> "TileDataSource"
                                 [] c.type = "3d-tiles" -> "ThreeDTilesDataSource"
                                 [] c.type = "mock" -> "MockDataSource")
       /\ c.type \notin {"geojson", "url", "tiles", "3d-tiles", "mock"}
            => /\ ~m.ok
               /\ m.err = "Unsupported data source type: " \o c.type
       /\ \A j \in 1 .. Len(created) :
            created[j].config = c => created[j].made = m

(* C20's case: the factory has built a mock source, then refused 'custom', *)
(* naming it.                                                              *)
C20_Witness ==
  /\ Len(created) = 2
  /\ created[1].made.ok
  /\ created[1].made.variant = "MockDataSource"
  /\ created[2].config.type = "custom"
  /\ created[2].made.err = "Unsupported data source type: custom"

(* C16: removeLayer(id) returns normally; for an id that is not registered *)
(* it leaves the registry as it was and destroys nothing; for a registered *)
(* id it calls destroy() once, on that layer only, and removes that entry  *)
(* only.                                                                   *)
C16_RemoveLayer ==
  [][\A id \in LayerIds :
       (lmLast'.op = "removeLayer" /\ lmLast'.id = Some(id))
       => /\ lmLast'.outcome = "ok"
          /\ layers[id] = None
               => layers' = layers /\ lmDestroyed' = [u \in 1 .. MaxLayerObjs |-> 0]
          /\ layers[id] # None
               => /\ layers' = [layers EXCEPT ![id] = None]
                  /\ lmDestroyed' = [u \in 1 .. MaxLayerObjs |->
                                       IF u = layers[id][1].uid THEN 1 ELSE 0]]_vars

(* C16's case: removeLayer has destroyed and removed one layer and another *)
(* layer is still registered.                                              *)
C16_Witness ==
  /\ lmLast.op = "removeLayer"
  /\ \E u \in 1 .. MaxLayerObjs : lmDestroyed[u] = 1
  /\ \E k \in LayerIds : layers[k] # None

(* C17: updateLayer for an id that is not registered throws the not-found  *)
(* error and leaves the registry as it was, with no entry created.         *)
C17_UpdateAbsentLayer ==
  [][\A id \in LayerIds :
       (layers[id] = None /\ lmLast'.op = "updateLayer" /\ lmLast'.id = Some(id))
       => /\ lmLast'.outcome = "Layer not found"
          /\ layers' = layers
          /\ layers'[id] = None]_vars

(* C17's case: updateLayer has thrown not-found while the registry holds a *)
(* layer under another id.                                                 *)
C17_Witness ==
  /\ lmLast.op = "updateLayer"
  /\ lmLast.outcome = "Layer not found"
  /\ layers[lmLast.id[1]] = None
  /\ \E k \in LayerIds : layers[k] # None

---------------------------------------------------------------------------
(* Properties of the provider and the facade (SpecGP).                     *)

(* C9: setLayerOpacity for a layer that exists, with an opacity outside    *)
(* [0,1], throws the validation error and leaves the stored opacity as it  *)
(* was (on the provider, and on the facade when the call reaches it).      *)
C9_OpacityValidated ==
  [][\A id \in LayerIds, o \in Opacities :
       (/\ pLayers[id] # None /\ ~OpacityInRange(o)
        /\ \/ pLast'.op = "setLayerOpacity"
           \/ pLast'.op = "UniversalMap.setLayerOpacity" /\ ensureInitialized
        /\ pLast'.id = id /\ pLast'.arg = Some(o))
       => (/\ pLast'.outcome = "Opacity must be between 0 and 1"
           /\ pLayers'[id][1].opacity = pLayers[id][1].opacity)]_vars

(* The step taken has the result out of a provider operation. *)
SameAs(out) == pLayers' = out.layers /\ gm' = out.gm /\ pLast'.outcome = out.outcome
(* The patch setLayerVisibility / setLayerOpacity stands for. *)
SugarPatch(op, arg) ==
  IF op \in {"setLayerVisibility", "UniversalMap.setLayerVisibility"}
    THEN VisiblePatch(arg) ELSE OpacityPatch(arg)
ProviderSugar == {"setLayerVisibility", "setLayerOpacity"}

(* C10: on an initialized provider, for every id, present or absent,       *)
(* setLayerVisibility(id, v) and setLayerOpacity(id, o) end as             *)
(* updateLayer(id, {visible: v}) and updateLayer(id, {opacity: o}) do,     *)
(* with the same state and the same failure.                               *)
C10_SugarEqualsUpdate ==
  [][(pLast'.op \in ProviderSugar /\ HasLayerManager(pState))
       => SameAs(gpUpdateLayer(pState, pLayers, gm, pLast'.id,
                               SugarPatch(pLast'.op, pLast'.arg[1])))]_vars

---------------------------------------------------------------------------
(* Properties of UniversalMap (SpecUM).                                    *)

C21_MissingFieldRefused ==
  [][\A c \in AddConfigs :
       LET missing == {f \in {"id", "type", "source"} : c[f] = None}
           named == { CASE f = "id" -> "Layer ID is required"
                        [] f = "type" -> "Layer type is required"
                        [] f = "source" -> "Layer source is required" : f \in missing }
       IN (missing # {} /\ addLayer(c))
          => /\ validateConfig(c) \in named
             /\ createLayer(lmNextUid, c).err \in named
             /\ lmLast'.outcome # "ok"
             /\ layers' = layers
             /\ ~hasLayer(c.id) => lmLast'.outcome \in named]_vars

(* C21's case: addLayer has thrown for a descriptor without a source while *)
(* the registry holds a layer.                                             *)
C21_Witness ==
  /\ lmLast.op = "addLayer"
  /\ lmLast.outcome = "Layer source is required"
  /\ \E k \in LayerIds : layers[k] # None

C23_MockLoad ==
  [][(dsLast'.op = "load" /\ objs[dsLast'.obj].type = "mock")
       => LET o == dsLast'.obj
              data == objs[o].config.data
          IN /\ dsLast'.outcome = "resolved"
             /\ calls' = calls
             /\ isLoaded(objs'[o])
             /\ dsLast'.res = IF data # None THEN data[1]
                               ELSE EmptyFeatureCollection]_vars

(* C24: for a string s, normalizeSource gives {type:'mock', data: s} when  *)
(* s begins with 'mock://' and {type:'url', url: s} otherwise.             *)
C24_NormalizeString ==
  \A i \in 1 .. Len(normalized) :
    LET src == normalized[i].source
        res == normalized[i].result
    IN src.typeof = "string"
       => IF src.str = "mock://m"
            THEN /\ res.type = "mock" /\ res.data = Some(src.str)
                 /\ res.url = None /\ res.options = None
            ELSE /\ res.type = "url" /\ res.url = Some(src.str)
                 /\ res.data = None /\ res.options = None

(* C24's case: a string with the prefix inside has been normalized to a    *)
(* url descriptor, a string that begins with it to a mock descriptor.      *)
C24_Witness ==
  /\ Len(normalized) = 2
  /\ normalized[1].source = JsString("x-mock://m")
  /\ normalized[1].result.type = "url"
  /\ normalized[2].source = JsString("mock://m")
  /\ normalized[2].result.type = "mock"

(* C25: for an object that is no descriptor with one of the five source    *)
(* tags (no type field, or a type such as 'FeatureCollection'),            *)
(* normalizeSource gives {type:'geojson', data: that object}.              *)
C25_NormalizeInlineObject ==
  \A i \in 1 .. Len(normalized) :
    LET src == normalized[i].source
        res == normalized[i].result
    IN (/\ src.typeof = "object"
        /\ src.obj.type \notin {"geojson", "url", "tiles", "3d-tiles", "mock"})
       => /\ res.type = "geojson" /\ res.data = Some(src.obj.ref)
          /\ res.url = None /\ res.options = None

(* C26: normalizeSource returns for every string and object, the same for  *)
(* the same input, and the type of what it returns is one of geojson, url, *)
(* tiles, 3d-tiles, mock.                                                  *)
C26_NormalizeTotal ==
  \A i \in 1 .. Len(normalized) :
    /\ normalized[i].result.type \in {"geojson", "url", "tiles", "3d-tiles", "mock"}
    /\ \A j \in 1 .. Len(normalized) :
         normalized[j].source = normalized[i].source
         => normalized[j].result = normalized[i].result

(* C27: for an object whose type is one of the five source tags,           *)
(* normalizeSource returns that object, its type, data, url and options as *)
(* they were.                                                              *)
C27_DescriptorPassedThrough ==
  \A i \in 1 .. Len(normalized) :
    LET src == normalized[i].source
        res == normalized[i].result
    IN (/\ src.typeof = "object"
        /\ src.obj.type \in {"geojson", "url", "tiles", "3d-tiles", "mock"})
       => /\ res = src.obj
          /\ res.type = src.obj.type /\ res.data = src.obj.data
          /\ res.url = src.obj.url /\ res.options = src.obj.options

(* C27's case: a url descriptor that carries options has been normalized. *)
C27_Witness ==
  /\ Len(normalized) >= 1
  /\ normalized[1].source.typeof = "object"
  /\ normalized[1].source.obj.type = "url"
  /\ normalized[1].source.obj.options # None
  /\ normalized[1].result.ref = "{url}"

(* C28: when the data load of a layer being added through the provider     *)
(* rejects, the layer is not left registered: the provider has no layer    *)
(* under that id whose data never loaded.                                  *)
C28_FailedLoadNotRegistered ==
  [][\A id \in LayerIds :
       (pLast'.op = "layerLoad" /\ pLast'.id = id /\ pLast'.outcome = "rejected")
       => pLayers'[id] = None]_vars

(* C29: emit invokes every handler registered for the event type, each     *)
(* once, also when handlers among them throw, and emit itself does not     *)
(* throw.                                                                  *)
C29_EmitSurvivesThrowingHandlers ==
  [][\A t \in EventInputs :
       (ee'.last.op = "emit" /\ ee'.last.type = t)
       => /\ ~ee'.last.threw
          /\ \A h \in EmitterHandlers :
               Cardinality({i \in DOMAIN ee'.last.invoked : ee'.last.invoked[i] = h})
                 = IF h \in {ee.listeners[t][i] : i \in DOMAIN ee.listeners[t]}
                     THEN 1 ELSE 0
          /\ ee'.listeners = ee.listeners]_vars

(* C29's case: emit has invoked three handlers of which the first threw    *)
(* and the last did not.                                                   *)
C29_Witness ==
  /\ ee.last.op = "emit"
  /\ Len(ee.last.invoked) = 3
  /\ ee.last.invoked[1] = "g"
  /\ ee.last.invoked[3] = "f"
  /\ ee.last.logged = 2

(* C30: while no load has failed, at most one script element has been      *)
(* appended, however many calls of loadGoogleMapsAPI were made; a call     *)
(* made while a load is in flight appends none and gets the promise of     *)
(* that load, and a call made after a load succeeded appends none and      *)
(* returns at once.                                                        *)
C30_SingleFlight ==
  [][(\A p \in DOMAIN loader'.promises : loader'.promises[p].state # "rejected")
       => /\ loader'.scripts <= 1
          /\ Len(loader'.calls) = Len(loader.calls) + 1
               => LET call == loader'.calls[Len(loader'.calls)]
                  IN /\ (loader.status = "LOADING")
                          => /\ call.kind = "shared"
                             /\ call.promise = loader.loadPromise
                             /\ loader'.scripts = loader.scripts
                             /\ loader'.promises = loader.promises
                     /\ (loader.status = "LOADED")
                          => /\ call.kind = "immediate"
                             /\ call.state = "resolved"
                             /\ loader'.scripts = loader.scripts
                             /\ loader'.promises = loader.promises]_vars

(* C30's case: three calls, the second made while the first load was in    *)
(* flight and the third after it succeeded, and one script element.        *)
C30_Witness ==
  /\ Len(loader.calls) = 3
  /\ loader.calls[1].kind = "starter" /\ loader.calls[1].state = "resolved"
  /\ loader.calls[2].kind = "shared" /\ loader.calls[2].state = "resolved"
  /\ loader.calls[3].kind = "immediate"
  /\ loader.scripts = 1

(* C31: UniversalMap.initialize(), called on a facade that is not          *)
(* initialized and whose Google provider can initialize, resolves and      *)
(* leaves the facade initialized with its provider (isReady(), operations  *)
(* accepted).                                                              *)
C31_InitializeSucceeds ==
  [][(pLast'.op = "UniversalMap.initialize" /\ pState = "ready")
       => /\ pLast'.outcome = "ok"
          /\ fInitialized'
          /\ fProvider'
          /\ ensureInitialized']_vars

(* C32: while the mapper is not destroyed, each native event it listens to *)
(* gives its callback exactly one event, of the type the table names for   *)
(* it, and a native event outside the table gives none; after destroy() no *)
(* native event gives a callback.                                          *)
C32_EventTranslation ==
  [][mapper'.last.op = "fire"
       => LET e == mapper'.last.event
              destroyed == mapper.listeners = << >>
              table == [click |-> "click", dblclick |-> "dblclick",
                        rightclick |-> "contextmenu", mousemove |-> "mousemove",
                        zoom_changed |-> "zoom", center_changed |-> "move",
                        dragstart |-> "movestart", dragend |-> "moveend",
                        heading_changed |-> "rotate", tilt_changed |-> "pitch",
                        tilesloaded |-> "load"]
          IN mapper'.received =
               IF destroyed \/ e \notin DOMAIN table THEN mapper.received
               ELSE Append(mapper.received, table[e])]_vars

(* C32's case: 'rightclick' has been delivered as contextmenu, and after   *)
(* destroy() a native event has fired without a callback.                  *)
C32_Witness ==
  /\ mapper.last.op = "fire"
  /\ mapper.last.event = "click"
  /\ mapper.listeners = << >>
  /\ mapper.received = << "contextmenu" >>

(* C33: every layer the LayerManager stores that has an opacity has it     *)
(* within [0, 1] (0 .. 10 in tenths).                                      *)
C33_StoredOpacityInRange ==
  \A k \in LayerIds :
    (layers[k] # None /\ layers[k][1].config.opacity # None)
    => /\ layers[k][1].config.opacity[1] >= 0
       /\ layers[k][1].config.opacity[1] <= 10

C35_RemovedDuringLoadIsGone ==
  [][\A id \in LayerIds :
       (/\ pLast'.op = "layerLoad" /\ pLast'.id = id
        /\ pLayers[id] = None
        /\ gm'.tasks = << >>)
       => /\ pLayers'[id] = None
          /\ id \notin gm'.layers \cup gm'.dataLayers \cup gm'.markers
          /\ gm'.attached[id] = 0]_vars

(* the overlays of layer id that the layer manager tracks *)
TrackedOverlays(id) ==
  (IF id \in gm.dataLayers THEN 1 ELSE 0) + (IF id \in gm.markers THEN 1 ELSE 0)

(* C36: when no data load is pending, every layer id has at most one       *)
(* overlay attached to the map, and an attached overlay is the one tracked *)
(* in dataLayers or markers.                                               *)
C36_OneTrackedOverlay ==
  gm.tasks = << >>
    => \A id \in LayerIds :
         /\ gm.attached[id] <= 1
         /\ gm.attached[id] = TrackedOverlays(id)

(* the number of times emit has called the i-th onceHandler closure, and   *)
(* with it the handler it was made for, in the last operation              *)
OnceCalls(E, i) ==
  Cardinality({n \in DOMAIN E.last.invoked : E.last.invoked[n] = OnceHandler(i)})

(* C37: a handler registered with once(type, h) is invoked at most once    *)
(* over all later emits, whether h returns, throws or emits the type       *)
(* again, and once it has been invoked it is no longer registered.         *)
C37_OnceAtMostOnce ==
  [][\A i \in DOMAIN ee.once :
       ee'.last.op = "emit"
       => /\ OnceCalls(ee', i) + (IF ee.once[i].called THEN 1 ELSE 0) <= 1
          /\ ee'.once[i].called
               => OnceHandler(i) \notin Handlers_of(ee'.listeners[ee.once[i].type])]_vars

(* C38: once the loader's status is FAILED it stays FAILED with the same   *)
(* stored error, no script element is appended any more, and every later   *)
(* call of load() rejects with that stored error.                          *)
C38_FailedIsPermanent ==
  [][loader.status = "FAILED"
       => /\ loader'.status = "FAILED"
          /\ loader'.error = loader.error
          /\ loader'.error # 0
          /\ loader'.scripts = loader.scripts
          /\ loader'.promises = loader.promises
          /\ Len(loader'.calls) = Len(loader.calls) + 1
               => LET call == loader'.calls[Len(loader'.calls)]
                  IN /\ call.kind = "thrown"
                     /\ call.state = "rejected"
                     /\ call.error = loader.error]_vars

(* C38's case: a load has failed and two later calls were rejected with    *)
(* the error of that failure, one script element having been appended.     *)
C38_Witness ==
  /\ loader.status = "FAILED"
  /\ Len(loader.calls) = 3
  /\ loader.calls[1].kind = "starter" /\ loader.calls[1].state = "rejected"
  /\ loader.calls[2].kind = "thrown" /\ loader.calls[2].error = loader.calls[1].error
  /\ loader.calls[3].kind = "thrown" /\ loader.calls[3].error = loader.calls[1].error
  /\ loader.calls[1].error # 0
  /\ loader.scripts = 1

(* C39: no event type of the listeners Map has an empty Set of handlers:   *)
(* eventNames() holds exactly the types whose listenerCount is above 0,    *)
(* and hasListeners(t) is true exactly for the types in eventNames().      *)
C39_NoEmptyHandlerSet ==
  /\ \A t \in ee.keys : ee.listeners[t] # << >>
  /\ eventNames(ee) = {t \in EventInputs : listenerCount(ee, t) > 0}
  /\ \A t \in EventInputs : hasListeners(ee, t) <=> t \in eventNames(ee)

(* C39's case: the only handler of 'click', made by once, has been called  *)
(* by emit and has removed itself, which took 'click' out of the Map,      *)
(* while 'load' still has a handler.                                       *)
C39_Witness ==
  /\ ee.last.op = "emit" /\ ee.last.type = "click"
  /\ ee.last.invoked = << OnceHandler(1) >>
  /\ ee.once[1].handler = "f"
  /\ eventNames(ee) = {"load"}
  /\ listenerCount(ee, "click") = 0
  /\ hasListeners(ee, "load")

(* the range a validator answers for, in tenths: [lo, hi], or [lo, hi) for *)
(* the bearing                                                             *)
RangeOf(fn) ==
  CASE fn = "validateZoom" -> [lo |-> 0, hi |-> 220]
    [] fn = "validateOpacity" -> [lo |-> 0, hi |-> 10]
    [] fn = "validateBearing" -> [lo |-> 0, hi |-> 3599]
    [] fn = "validatePitch" -> [lo |-> 0, hi |-> 600]

(* C40: every validator returns a number in its range, and the same number *)
(* when applied to its own result; validateZoom, validateOpacity and       *)
(* validatePitch return an input in range unchanged and the nearest bound  *)
(* otherwise; validateBearing returns a value congruent to its input       *)
(* modulo 360.                                                             *)
C40_ValidatorsInRange ==
  \A i \in DOMAIN validated :
    LET c == validated[i]
        range == RangeOf(c.fn)
    IN /\ c.result.k = "finite"
       /\ c.result.v >= range.lo /\ c.result.v <= range.hi
       /\ ApplyValidator(c.fn, c.result) = c.result
       /\ (c.fn # "validateBearing" /\ c.arg.k # "NaN")
            => c.result = (IF JsLess(c.arg, Num(range.lo)) THEN Num(range.lo)
                           ELSE IF JsLess(Num(range.hi), c.arg) THEN Num(range.hi)
                           ELSE c.arg)
       /\ (c.fn = "validateBearing" /\ c.arg.k = "finite")
            => (c.result.v - c.arg.v) % 3600 = 0
=============================================================================
